---- MODULE Spec2Model ----
(***************************************************************************)
(* Miragend: a reverse proxy that fetches a page from an upstream origin,  *)
(* patches or obfuscates it and forwards the result.                       *)
(*                                                                         *)
(* Four specifications over one set of variables:                          *)
(*   Spec        main.rs: startup and the request handler                  *)
(*   SpecLoad    fetching.rs: the load() fetch-and-classify function       *)
(*   SpecHeaders headers.rs: build_from_request on inbound header maps     *)
(*   SpecCodec   obfuscation.rs: the mapping table and random_char         *)
(* A specification leaves the variables of the others at their initial     *)
(* values.                                                                 *)
(*                                                                         *)
(* Text that the code inspects character by character (header values) is   *)
(* a sequence of one-character strings.                                    *)
(***************************************************************************)
EXTENDS Integers, Sequences, FiniteSets, TLC

\* ------------------------------------------------------------------ bounds
\* requests handled in one run of the server
MaxRequests == 2
\* header lines of one upstream response
MaxRespHeaders == 2
\* header lines of one inbound request
MaxReqHeaders == 3
\* rows of the character range mapping table
MaxMappers == 2

\* ------------------------------------------------------- program constants
GATEWAY_TIMEOUT == 504
BAD_GATEWAY == 502
INTERNAL_SERVER_ERROR == 500

\* ------------------------------------------------------------ header text
HOST == "host"
CONTENT_TYPE == "content-type"
CONNECTION == "connection"
CONTENT_LENGTH == "content-length"
CONTENT_ENCODING == "content-encoding"
ETAG == "etag"
LAST_MODIFIED == "last-modified"
TRANSFER_ENCODING == "transfer-encoding"
SET_COOKIE == "set-cookie"
ACCEPT == "accept"

\* a byte that is not visible ASCII (HeaderValue::to_str rejects it)
NonAsciiByte == "0x80"

TextHtml == <<"t","e","x","t","/","h","t","m","l">>
ApplicationJson == <<"a","p","p","l","i","c","a","t","i","o","n","/","j","s","o","n">>

\* str::starts_with
StartsWith(value, prefix) ==
    /\ Len(value) >= Len(prefix)
    /\ SubSeq(value, 1, Len(prefix)) = prefix

\* HeaderValue::to_str succeeds only on visible ASCII
ToStrOk(value) == \A i \in 1..Len(value) : value[i] # NonAsciiByte

\* ----------------------------------------------------------------- HeaderMap
\* A HeaderMap is a multimap: a sequence of entries with distinct names,
\* in order of first insertion, each with its values in insertion order.
HeaderFind(map, key) ==
    IF \E i \in 1..Len(map) : map[i].name = key
    THEN CHOOSE i \in 1..Len(map) : map[i].name = key
    ELSE 0

HeaderContainsKey(map, key) == HeaderFind(map, key) # 0

\* HeaderMap::insert: replaces every value already stored under the key
HeaderInsert(map, key, value) ==
    LET i == HeaderFind(map, key) IN
    IF i = 0 THEN Append(map, [name |-> key, values |-> <<value>>])
    ELSE [map EXCEPT ![i].values = <<value>>]

\* HeaderMap::append (also http::response::Builder::header): keeps the
\* values already stored under the key
HeaderAppend(map, key, value) ==
    LET i == HeaderFind(map, key) IN
    IF i = 0 THEN Append(map, [name |-> key, values |-> <<value>>])
    ELSE [map EXCEPT ![i].values = Append(@, value)]

\* HeaderMap::get: the first value of the key
HeaderGet(map, key) == map[HeaderFind(map, key)].values[1]

\* every value stored under the key, in order (<<>> when absent)
HeaderValues(map, key) ==
    IF HeaderContainsKey(map, key) THEN map[HeaderFind(map, key)].values ELSE <<>>

HeaderNames(map) == {map[i].name : i \in 1..Len(map)}

\* HeaderMap::iter: every (name, value) pair, one per value
RECURSIVE HeaderIter(_)
HeaderIter(map) ==
    IF map = <<>> THEN <<>>
    ELSE LET e == Head(map) IN
         [i \in 1..Len(e.values) |-> <<e.name, e.values[i]>>] \o HeaderIter(Tail(map))

\* the header map a parser builds from header lines, one append per line
RECURSIVE FromLines(_)
FromLines(lines) ==
    IF lines = <<>> THEN <<>>
    ELSE LET n == Len(lines) IN
         HeaderAppend(FromLines(SubSeq(lines, 1, n - 1)), lines[n][1], lines[n][2])

SeqsUpTo(S, n) == UNION {[1..k -> S] : k \in 0..n}


\* ------------------------------------------------------------------ state
VARIABLES
    cfg,         \* the environment: MIRAGEND_UPSTREAM_BASE_URL, _STRATEGY, _SPECIAL_PAGE_STYLE
    phase,       \* main(): "startup", "serving" or "aborted"
    domainInit,  \* the LazyLock UPSTREAM_DOAMIN: "uninit", "ok" or "poisoned"
    handled,     \* requests accepted so far
    pc,          \* the handler task: "idle", "wait_send", "wait_text", "done", "panicked"
    sent,        \* the upstream GET in flight (its header map)
    gets,        \* upstream GETs issued for the current request
    upstream,    \* the upstream response of the current request
    fetched,     \* the Fetched outcome of the current request
    patched,     \* the patch_page call of the current request: its steps and result
    response,    \* the response returned for the current request
    ld,          \* one call of fetching::load
    hdr,         \* one call of headers::build_from_request
    mappers,     \* ObfuscatorConfig.mappers
    codec,       \* one call of obfuscation::random_char
    txt,         \* one call of the text obfuscator
    json,        \* one call of the JSON walker
    pw,          \* one run of the steps of Strategy::Patch in patch_page
    ow,          \* one run of obfuscate_content
    sr,          \* the calls of special_response::build_resp
    statics,     \* the LazyLock statics of vars.rs, with the environment
    tasks        \* the handler tasks of the requests handled concurrently

vars == <<cfg, phase, domainInit, handled, pc, sent, gets, upstream, fetched,
          patched, response, ld, hdr, mappers, codec, txt, json, pw, ow, sr,
          statics, tasks>>

NoResponse == [tag |-> "None"]
NoFetched == [tag |-> "None"]
NoUpstream == [tag |-> "None"]
NoGet == [tag |-> "None"]
NotPatched == [steps |-> <<>>, result |-> "none"]
NotRead == [kind |-> "NotRead"]

\* ------------------------------------------------------------- input sets
\* values of MIRAGEND_UPSTREAM_BASE_URL: unset, "", not a URL, a URL whose
\* host is an IP address, a URL with a domain
BaseUrls == {"missing", "empty", "invalid", "nodomain", "domain"}
\* values of MIRAGEND_STRATEGY (unset defaults to "obfuscation")
StrategyNames == {"patch", "obfuscation", "obfus", "bogus"}
\* MIRAGEND_SPECIAL_PAGE_STYLE after the match in vars.rs
Styles == {"Nginx", "None"}

\* the domain of the upstream base URL, as a header value
OriginDomain == <<"o","r","i","g","i","n">>
ClientHost == <<"p","r","o","x","y">>

UpstreamStatuses == {200, 502}

ContentTypeValues ==
    { TextHtml,
      TextHtml \o <<";","q">>,
      SubSeq(TextHtml, 1, Len(TextHtml) - 1),
      ApplicationJson,
      SubSeq(ApplicationJson, 1, 12) \o <<"x","m","l">>,
      TextHtml \o <<NonAsciiByte>> }

\* header lines an upstream response may carry
RespLines ==
    ({CONTENT_TYPE} \X ContentTypeValues)
    \cup ({SET_COOKIE} \X {<<"a">>, <<"b">>})
    \cup ({ETAG, CONTENT_LENGTH} \X {<<"e">>})

UpstreamHeaderMaps == {FromLines(l) : l \in SeqsUpTo(RespLines, MaxRespHeaders)}

\* header lines an inbound request may carry
ReqLines ==
    ({HOST} \X {ClientHost})
    \cup ({ACCEPT} \X {<<"a">>, <<"b">>})
    \cup ({"cookie"} \X {<<"c">>})

InboundHeaderMaps == {FromLines(l) : l \in SeqsUpTo(ReqLines, MaxReqHeaders)}

\* upstream bodies, as text
Bodies == {"<p>A</p>", "{}"}

\* results of reqwest's send(): a response, or an error that is or is not a timeout
SendResults ==
    [kind : {"Err"}, is_timeout : BOOLEAN]
    \cup {[kind |-> "Ok", status |-> s, headers |-> h] :
            s \in UpstreamStatuses, h \in UpstreamHeaderMaps}

\* results of Response::text()
TextResults ==
    [kind : {"Err"}, is_timeout : BOOLEAN]
    \cup [kind : {"Ok"}, body : Bodies]

\* results of the parse / serialize / from_utf8 calls of patch_page
PatchOutcomes == {"ok", "parse_err", "serialize_err", "utf8_err"}

\* ------------------------------------------------------------- request.rs
\* map_error without the is_timeout test
map_error_no_timeout(e) == "Reqwest"

map_error(e) == IF e.is_timeout THEN "Timeout" ELSE "Reqwest"

\* get(): the client builder may fail; otherwise the result of send()
get(built, sendResult) ==
    IF ~built THEN [kind |-> "Err", error |-> "Reqwest"]
    ELSE IF sendResult.kind = "Ok" THEN sendResult
    ELSE [kind |-> "Err", error |-> map_error(sendResult)]

\* ------------------------------------------------------------- headers.rs
RECURSIVE build_fold(_, _, _)
build_fold(pairs, headers, domain) ==
    IF pairs = <<>> THEN headers
    ELSE LET key == Head(pairs)[1]
             value == IF key = HOST THEN domain ELSE Head(pairs)[2]
         IN build_fold(Tail(pairs), HeaderInsert(headers, key, value), domain)

build_from_request(source_headers) ==
    build_fold(HeaderIter(source_headers), <<>>, OriginDomain)

\* the ignore list without ETag
IGNORE_RESPONSE_HEADERS_no_etag ==
    {CONNECTION, CONTENT_LENGTH, CONTENT_ENCODING, LAST_MODIFIED, TRANSFER_ENCODING}

IGNORE_RESPONSE_HEADERS ==
    {CONNECTION, CONTENT_LENGTH, CONTENT_ENCODING, ETAG, LAST_MODIFIED, TRANSFER_ENCODING}

RECURSIVE append_fold(_, _)
append_fold(pairs, builder) ==
    IF pairs = <<>> THEN builder
    ELSE LET key == Head(pairs)[1]
             value == Head(pairs)[2]
         IN append_fold(Tail(pairs),
                        IF key \notin IGNORE_RESPONSE_HEADERS
                        THEN HeaderAppend(builder, key, value)
                        ELSE builder)

\* AppendHeaders::append_headers on a response builder without headers
append_headers(headers) == append_fold(HeaderIter(headers), <<>>)

\* ---------------------------------------------------- special_response.rs
CONTENT_TYPE_VALUE_TEXT_HTML ==
    TextHtml \o <<";"," ","c","h","a","r","s","e","t","=","u","t","f","-","8">>

\* StatusCode::canonical_reason
canonical_reason(status_code) ==
    CASE status_code = 200 -> "OK"
      [] status_code = 404 -> "Not Found"
      [] status_code = INTERNAL_SERVER_ERROR -> "Internal Server Error"
      [] status_code = BAD_GATEWAY -> "Bad Gateway"
      [] status_code = GATEWAY_TIMEOUT -> "Gateway Timeout"
      [] OTHER -> "<unknown status code>"

\* build_page with the reason phrase alone as the body
build_page_reason_only(status_code) ==
    [kind |-> "plain", text |-> canonical_reason(status_code)]

\* status_code.to_string(): the code, a space and the canonical reason
\* phrase, "<unknown status code>" when the code has none
build_page(status_code) ==
    [kind |-> "plain",
     text |-> ToString(status_code) \o " " \o canonical_reason(status_code)]

build_nginx_page(status_code) ==
    LET content ==
          CASE status_code = GATEWAY_TIMEOUT -> "504 Gateway Time-out"
            [] status_code = INTERNAL_SERVER_ERROR -> "500 Internal Server Error"
            [] status_code = BAD_GATEWAY -> "502 Bad Gateway"
            [] OTHER -> ToString(status_code)
    IN [kind |-> "nginx", title |-> content, h1 |-> content]

build_body(status_code, style) ==
    IF style = "Nginx" THEN build_nginx_page(status_code) ELSE build_page(status_code)

build_resp(status_code, style) ==
    [tag |-> "Response",
     status |-> status_code,
     headers |-> IF style = "Nginx"
                 THEN HeaderAppend(<<>>, CONTENT_TYPE, CONTENT_TYPE_VALUE_TEXT_HTML)
                 ELSE <<>>,
     body |-> build_body(status_code, style)]

\* build_resp_with_fallback always taking its fallback status
build_resp_always_500(status_code, style) ==
    build_resp(INTERNAL_SERVER_ERROR, style)

\* build_resp puts a constant header and a valid status on a builder: it
\* returns Ok, and the fallback arm is not taken
build_resp_with_fallback(status_code, style) == build_resp(status_code, style)


\* ------------------------------------------------------- Fetched / Loaded
Special(status_code) == [tag |-> "Special", status |-> status_code]

\* the reqwest Response held across the await of text()
Received(result) ==
    [tag |-> "Response", status |-> result.status, headers |-> result.headers,
     text |-> NotRead]

\* ---------------------------------------------------------------- main.rs
\* the match on vars::strategy() with Patch as the fallback strategy
strategy_of_fallback_patch(name) ==
    CASE name = "patch" -> "Patch"
      [] name \in {"obfuscation", "obfus"} -> "Obfuscation"
      [] OTHER -> "Patch"

\* enum Strategy, chosen by the match on vars::strategy()
strategy_of(name) ==
    CASE name = "patch" -> "Patch"
      [] name \in {"obfuscation", "obfus"} -> "Obfuscation"
      [] OTHER -> "Obfuscation"

\* fetch(), from the result of request::get to the await of text():
\* a Fetched value when it returns, "Pending" when it goes on to read the body
fetch_classify(result) ==
    IF result.kind = "Err"
    THEN IF result.error = "Timeout" THEN Special(GATEWAY_TIMEOUT)
         ELSE Special(BAD_GATEWAY)
    ELSE IF ~HeaderContainsKey(result.headers, CONTENT_TYPE)
         THEN [tag |-> "Pending"]
         ELSE LET header == HeaderGet(result.headers, CONTENT_TYPE) IN
              IF ~ToStrOk(header) THEN Special(BAD_GATEWAY)
              ELSE IF StartsWith(header, TextHtml) THEN [tag |-> "Pending"]
              ELSE Special(BAD_GATEWAY)

\* fetch(), from the result of text() to its return
fetch_forward(resp, textResult) ==
    IF textResult.kind = "Err" THEN Special(BAD_GATEWAY)
    ELSE [tag |-> "Forward",
          status |-> resp.status,
          headers |-> resp.headers,
          body |-> [kind |-> "raw", text |-> textResult.body]]

\* patch_page(): parse, run the walker of the strategy, serialize. The
\* document and the walkers are abstract here: the result names the body it
\* was made from and the strategy that made it.
patch_page(html, strategy, outcome) ==
    LET walker == IF strategy = "Patch" THEN "patch" ELSE "obfuscate_content" IN
    IF outcome = "parse_err"
    THEN [kind |-> "Err", steps |-> <<"parse">>]
    ELSE IF outcome \in {"serialize_err", "utf8_err"}
    THEN [kind |-> "Err", steps |-> <<"parse", walker, "serialize">>]
    ELSE [kind |-> "Ok", steps |-> <<"parse", walker, "serialize">>,
          html |-> [kind |-> "transformed", by |-> strategy, of |-> html.text]]

\* handler(), the arm of a failed patch_page passing the upstream page through
handler_respond_raw(outcome_of_fetch, strategy, style, outcome) ==
    IF outcome_of_fetch.tag = "Forward"
    THEN LET p == patch_page(outcome_of_fetch.body, strategy, outcome) IN
         [resp |-> [tag |-> "Response",
                    status |-> outcome_of_fetch.status,
                    headers |-> append_headers(outcome_of_fetch.headers),
                    body |-> IF p.kind = "Ok" THEN p.html ELSE outcome_of_fetch.body],
          patched |-> [steps |-> p.steps, result |-> outcome]]
    ELSE [resp |-> build_resp_with_fallback(outcome_of_fetch.status, style),
          patched |-> NotPatched]

\* the match on the Fetched value at the end of handler(). The builder is
\* given a status and headers taken from a parsed response, so body() is Ok.
handler_respond(outcome_of_fetch, strategy, style, outcome) ==
    IF outcome_of_fetch.tag = "Forward"
    THEN LET p == patch_page(outcome_of_fetch.body, strategy, outcome) IN
         IF p.kind = "Ok"
         THEN [resp |-> [tag |-> "Response",
                         status |-> outcome_of_fetch.status,
                         headers |-> append_headers(outcome_of_fetch.headers),
                         body |-> p.html],
               patched |-> [steps |-> p.steps, result |-> outcome]]
         ELSE [resp |-> build_resp_with_fallback(INTERNAL_SERVER_ERROR, style),
               patched |-> [steps |-> p.steps, result |-> outcome]]
    ELSE [resp |-> build_resp_with_fallback(outcome_of_fetch.status, style),
          patched |-> NotPatched]

\* LazyLock::force(&UPSTREAM_DOAMIN): parses the base URL and takes its
\* domain on first use; a panic in the initializer poisons the lock
force_upstream_domain(state, base) ==
    IF state # "uninit" THEN state
    ELSE IF base = "domain" THEN "ok" ELSE "poisoned"

LdIdle == [pc |-> "idle", gets |-> 0, send |-> NotRead, resp |-> NoUpstream,
           out |-> NoFetched]
HdrIdle == [pc |-> "idle", source |-> <<>>, out |-> <<>>]
CodecIdle == [pc |-> "idle", input |-> 0, out |-> [kind |-> "none"]]
TxtIdle == [pc |-> "idle", by |-> "none", input |-> <<>>, out |-> [kind |-> "none"]]
JsonIdle == [pc |-> "idle", input |-> [kind |-> "Null"], out |-> [kind |-> "none"]]
PwIdle == [pc |-> "idle"]
OwIdle == [pc |-> "idle"]
SrIdle == [calls |-> <<>>]
\* no static has been dereferenced and no concurrent task runs
ConcIdle == [none |-> TRUE]

\* no walker, text obfuscator or response builder has been called
WalkersIdle ==
    /\ txt = TxtIdle
    /\ json = JsonIdle
    /\ pw = PwIdle
    /\ ow = OwIdle
    /\ sr = SrIdle
    /\ statics = ConcIdle
    /\ tasks = ConcIdle

\* main(): validate_config() reads UPSTREAM_BASE_URL (a panic when the
\* variable is unset, an error when it is empty), then the listener binds
main ==
    /\ phase = "startup"
    /\ IF cfg.base \in {"missing", "empty"}
       THEN phase' = "aborted"
       ELSE \E bound \in BOOLEAN : phase' = IF bound THEN "serving" ELSE "aborted"
    /\ UNCHANGED <<cfg, domainInit, handled, pc, sent, gets, upstream,
                   fetched, patched, response, ld, hdr, mappers, codec, txt,
                   json, pw, ow, sr, statics, tasks>>

\* handler(), from the arrival of a request to the await of send()
handler ==
    /\ phase = "serving"
    /\ pc = "idle"
    /\ handled < MaxRequests
    /\ handled' = handled + 1
    /\ \E source \in InboundHeaderMaps, built \in BOOLEAN :
         LET forced == IF HeaderContainsKey(source, HOST)
                       THEN force_upstream_domain(domainInit, cfg.base)
                       ELSE domainInit
             result == get(built, [kind |-> "Err", is_timeout |-> FALSE])
         IN
         /\ domainInit' = forced
         /\ IF HeaderContainsKey(source, HOST) /\ forced = "poisoned"
            THEN \* build_from_request panics: the task ends without a response
                 /\ pc' = "panicked"
                 /\ UNCHANGED <<sent, gets, fetched, patched, response>>
            ELSE IF ~built
            THEN \* request::get fails before anything is sent
                 /\ pc' = "done"
                 /\ UNCHANGED <<sent, gets>>
                 /\ fetched' = fetch_classify(result)
                 /\ LET r == handler_respond(fetch_classify(result),
                                             strategy_of(cfg.strategy), cfg.style, "ok")
                    IN patched' = r.patched /\ response' = r.resp
            ELSE /\ pc' = "wait_send"
                 /\ sent' = [tag |-> "Get", headers |-> build_from_request(source)]
                 /\ gets' = gets + 1
                 /\ UNCHANGED <<fetched, patched, response>>
    /\ UNCHANGED <<cfg, phase, upstream, ld, hdr, mappers, codec, txt, json,
                   pw, ow, sr, statics, tasks>>

\* fetch(), with a second GET after a failed one
fetch_send_returns_retry ==
    /\ pc = "wait_send"
    /\ \E sendResult \in SendResults :
         /\ cfg.base = "invalid" => (sendResult.kind = "Err" /\ ~sendResult.is_timeout)
         /\ LET result == get(TRUE, sendResult)
                out == fetch_classify(result)
            IN IF result.kind = "Err" /\ gets < 2
               THEN /\ gets' = gets + 1
                    /\ UNCHANGED <<pc, sent, upstream, fetched, patched, response>>
               ELSE /\ UNCHANGED gets
                    /\ sent' = NoGet
                    /\ IF out.tag = "Pending"
                       THEN /\ pc' = "wait_text"
                            /\ upstream' = Received(result)
                            /\ UNCHANGED <<fetched, patched, response>>
                       ELSE /\ pc' = "done"
                            /\ upstream' = IF result.kind = "Ok" THEN Received(result)
                                           ELSE NoUpstream
                            /\ fetched' = out
                            /\ LET r == handler_respond(out, strategy_of(cfg.strategy),
                                                        cfg.style, "ok")
                               IN patched' = r.patched /\ response' = r.resp
    /\ UNCHANGED <<cfg, phase, domainInit, handled, ld, hdr, mappers, codec,
                   txt, json, pw, ow, sr, statics, tasks>>

\* send() returns: fetch() classifies the result
fetch_send_returns ==
    /\ pc = "wait_send"
    /\ \E sendResult \in SendResults :
         /\ cfg.base = "invalid" => (sendResult.kind = "Err" /\ ~sendResult.is_timeout)
         /\ LET result == get(TRUE, sendResult)
                out == fetch_classify(result)
            IN IF out.tag = "Pending"
               THEN /\ pc' = "wait_text"
                    /\ upstream' = Received(result)
                    /\ UNCHANGED <<fetched, patched, response>>
               ELSE /\ pc' = "done"
                    /\ upstream' = IF result.kind = "Ok" THEN Received(result)
                                   ELSE NoUpstream
                    /\ fetched' = out
                    /\ LET r == handler_respond(out, strategy_of(cfg.strategy),
                                                cfg.style, "ok")
                       IN patched' = r.patched /\ response' = r.resp
    /\ sent' = NoGet
    /\ UNCHANGED <<cfg, phase, domainInit, handled, gets, ld, hdr, mappers,
                   codec, txt, json, pw, ow, sr, statics, tasks>>

\* text() returns: fetch() returns and handler() builds the response
fetch_text_returns ==
    /\ pc = "wait_text"
    /\ \E textResult \in TextResults, outcome \in PatchOutcomes :
         LET out == fetch_forward(upstream, textResult)
             r == handler_respond(out, strategy_of(cfg.strategy), cfg.style, outcome)
         IN /\ out.tag = "Special" => outcome = "ok"
            /\ upstream' = [upstream EXCEPT !.text = textResult]
            /\ fetched' = out
            /\ patched' = r.patched
            /\ response' = r.resp
    /\ pc' = "done"
    /\ UNCHANGED <<cfg, phase, domainInit, handled, sent, gets, ld, hdr,
                   mappers, codec, txt, json, pw, ow, sr, statics, tasks>>

\* the handler task ends (its response returned, or unwound by a panic) and
\* the values of the request are dropped
task_ends ==
    /\ pc \in {"done", "panicked"}
    /\ pc' = "idle"
    /\ sent' = NoGet
    /\ gets' = 0
    /\ upstream' = NoUpstream
    /\ fetched' = NoFetched
    /\ patched' = NotPatched
    /\ response' = NoResponse
    /\ UNCHANGED <<cfg, phase, domainInit, handled, ld, hdr, mappers, codec,
                   txt, json, pw, ow, sr, statics, tasks>>

HandlerIdle ==
    /\ phase = "startup"
    /\ domainInit = "uninit"
    /\ handled = 0
    /\ pc = "idle"
    /\ sent = NoGet
    /\ gets = 0
    /\ upstream = NoUpstream
    /\ fetched = NoFetched
    /\ patched = NotPatched
    /\ response = NoResponse

Init ==
    /\ cfg \in [base : BaseUrls, strategy : StrategyNames, style : Styles]
    /\ HandlerIdle
    /\ ld = LdIdle
    /\ hdr = HdrIdle
    /\ mappers = <<>>
    /\ codec = CodecIdle
    /\ WalkersIdle

Next ==
    \/ main
    \/ handler
    \/ fetch_send_returns
    \/ fetch_text_returns
    \/ task_ends

Spec == Init /\ [][Next]_vars


\* ------------------------------------------------------------ fetching.rs
\* load(), from the result of request::get to the await of text(): a Loaded
\* value when it returns, "Pending" with the content type when it goes on
load_classify(result) ==
    IF result.kind = "Err"
    THEN IF result.error = "Timeout" THEN Special(GATEWAY_TIMEOUT)
         ELSE Special(BAD_GATEWAY)
    ELSE IF ~HeaderContainsKey(result.headers, CONTENT_TYPE)
         THEN [tag |-> "Pending", content_type |-> "Html"]
         ELSE LET header == HeaderGet(result.headers, CONTENT_TYPE) IN
              IF ~ToStrOk(header) THEN Special(BAD_GATEWAY)
              ELSE IF StartsWith(header, TextHtml)
                   THEN [tag |-> "Pending", content_type |-> "Html"]
              ELSE IF StartsWith(header, ApplicationJson)
                   THEN [tag |-> "Pending", content_type |-> "Json"]
              ELSE Special(BAD_GATEWAY)

\* load(), from the result of text() to its return
load_forward(resp, content_type, textResult) ==
    IF textResult.kind = "Err" THEN Special(BAD_GATEWAY)
    ELSE [tag |-> "Forward",
          status |-> resp.status,
          headers |-> resp.headers,
          content_type |-> content_type,
          body |-> [kind |-> "raw", text |-> textResult.body]]

\* load() is called and awaits send(), or get() fails in the client builder
load ==
    /\ ld.pc \in {"idle", "done"}
    /\ \E built \in BOOLEAN :
         IF built
         THEN ld' = [pc |-> "wait_send", gets |-> 1, send |-> NotRead,
                     resp |-> NoUpstream, out |-> NoFetched]
         ELSE ld' = [pc |-> "done", gets |-> 0, send |-> NotRead,
                     resp |-> NoUpstream,
                     out |-> load_classify(get(FALSE, NotRead))]
    /\ UNCHANGED <<cfg, phase, domainInit, handled, pc, sent, gets, upstream,
                   fetched, patched, response, hdr, mappers, codec, txt,
                   json, pw, ow, sr, statics, tasks>>

load_send_returns ==
    /\ ld.pc = "wait_send"
    /\ \E sendResult \in SendResults :
         LET result == get(TRUE, sendResult)
             out == load_classify(result)
         IN ld' = [ld EXCEPT
                     !.pc = IF out.tag = "Pending" THEN "wait_text" ELSE "done",
                     !.send = sendResult,
                     !.resp = IF result.kind = "Ok" THEN Received(result)
                              ELSE NoUpstream,
                     !.out = out]
    /\ UNCHANGED <<cfg, phase, domainInit, handled, pc, sent, gets, upstream,
                   fetched, patched, response, hdr, mappers, codec, txt,
                   json, pw, ow, sr, statics, tasks>>

load_text_returns ==
    /\ ld.pc = "wait_text"
    /\ \E textResult \in TextResults :
         ld' = [ld EXCEPT
                  !.pc = "done",
                  !.resp = [ld.resp EXCEPT !.text = textResult],
                  !.out = load_forward(ld.resp, ld.out.content_type, textResult)]
    /\ UNCHANGED <<cfg, phase, domainInit, handled, pc, sent, gets, upstream,
                   fetched, patched, response, hdr, mappers, codec, txt,
                   json, pw, ow, sr, statics, tasks>>

\* the configuration of a server that came up
ServingCfg == [base |-> "domain", strategy |-> "obfuscation", style |-> "None"]

InitLoad ==
    /\ cfg = ServingCfg
    /\ HandlerIdle
    /\ ld = LdIdle
    /\ hdr = HdrIdle
    /\ mappers = <<>>
    /\ codec = CodecIdle
    /\ WalkersIdle

NextLoad ==
    \/ load
    \/ load_send_returns
    \/ load_text_returns

SpecLoad == InitLoad /\ [][NextLoad]_vars

\* ------------------------------------------- headers.rs as a pure function
HeaderLineCount(map) == Len(HeaderIter(map))

\* one more header line of the inbound request is parsed
header_line ==
    /\ hdr.pc = "idle"
    /\ HeaderLineCount(hdr.source) < MaxReqHeaders
    /\ \E line \in ReqLines :
         hdr' = [hdr EXCEPT !.source = HeaderAppend(@, line[1], line[2])]
    /\ UNCHANGED <<cfg, phase, domainInit, handled, pc, sent, gets, upstream,
                   fetched, patched, response, ld, mappers, codec, txt, json,
                   pw, ow, sr, statics, tasks>>

\* build_from_request is applied to the inbound headers
build ==
    /\ hdr.pc = "idle"
    /\ hdr' = [hdr EXCEPT !.pc = "built", !.out = build_from_request(hdr.source)]
    /\ UNCHANGED <<cfg, phase, domainInit, handled, pc, sent, gets, upstream,
                   fetched, patched, response, ld, mappers, codec, txt, json,
                   pw, ow, sr, statics, tasks>>

InitHeaders ==
    /\ cfg = ServingCfg
    /\ HandlerIdle
    /\ ld = LdIdle
    /\ hdr = HdrIdle
    /\ mappers = <<>>
    /\ codec = CodecIdle
    /\ WalkersIdle

NextHeaders ==
    \/ header_line
    \/ build

SpecHeaders == InitHeaders /\ [][NextHeaders]_vars


\* --------------------------------------------------------- obfuscation.rs
\* Characters are code points. The fields of the mapping rows, the inputs
\* and the random draws are taken from a few code points around the ranges
\* of interest: 'A', U+4E00, U+9FA5, U+D800 (a surrogate) and U+E000.
RowCodePoints == {19968, 57344}
InputChars == {65, 19968, 40869, 57344}
DrawSamples == {19968, 40869, 55296, 57344}
\* a CSV field that is not a hexadecimal number
NotHex == -1

\* char::from_u32: the Unicode scalar values
IsChar(v) == (0 <= v /\ v < 55296) \/ (57343 < v /\ v <= 1114111)

\* rows of the mapping CSV (struct Record, without the comment)
Records ==
    [source_start : RowCodePoints, source_end : RowCodePoints,
     target_start : RowCodePoints, target_end : RowCodePoints]
    \cup {[source_start |-> NotHex, source_end |-> 57344,
           target_start |-> 19968, target_end |-> 57344],
          [source_start |-> 19968, source_end |-> 57344,
           target_start |-> 19968, target_end |-> 55296]}

\* CharactersMapper::try_from: every field parses as hex and is a char
try_from_ok(record) ==
    \A f \in {record.source_start, record.source_end,
              record.target_start, record.target_end} : f # NotHex /\ IsChar(f)

\* ObfuscatorConfig::load_from_csv: the rows that convert, in order
RECURSIVE load_from_csv(_)
load_from_csv(records) ==
    IF records = <<>> THEN <<>>
    ELSE IF try_from_ok(Head(records))
         THEN <<Head(records)>> \o load_from_csv(Tail(records))
         ELSE load_from_csv(Tail(records))

Char(c) == [kind |-> "char", c |-> c]
QUESTION_MARK == 63

\* random_unicode_char: the characters it may return; gen_range panics on
\* an empty range, and a draw that is no scalar value becomes '?'
random_unicode_char(start, end) ==
    IF start > end THEN {[kind |-> "panic"]}
    ELSE {IF IsChar(v) THEN Char(v) ELSE Char(QUESTION_MARK) :
            v \in {d \in DrawSamples : start <= d /\ d <= end}}

\* random_char with the source range tested on its lower end only
RECURSIVE random_char_open(_, _)
random_char_open(ms, input) ==
    IF ms = <<>> THEN {Char(input)}
    ELSE LET mapper == Head(ms) IN
         IF mapper.source_start <= input
         THEN random_unicode_char(mapper.target_start, mapper.target_end)
         ELSE random_char_open(Tail(ms), input)

\* random_char: the characters it may return for the input
RECURSIVE random_char(_, _)
random_char(ms, input) ==
    IF ms = <<>> THEN {Char(input)}
    ELSE LET mapper == Head(ms) IN
         IF mapper.source_start <= input /\ input < mapper.source_end
         THEN random_unicode_char(mapper.target_start, mapper.target_end)
         ELSE random_char(Tail(ms), input)

\* OBFUSCATOR_CONFIG is initialized from the CSV
init_obfuscator_config ==
    /\ codec.pc = "unloaded"
    /\ \E records \in SeqsUpTo(Records, MaxMappers) :
         mappers' = load_from_csv(records)
    /\ codec' = [codec EXCEPT !.pc = "idle"]
    /\ UNCHANGED <<cfg, phase, domainInit, handled, pc, sent, gets, upstream,
                   fetched, patched, response, ld, hdr, txt, json, pw, ow,
                   sr, statics, tasks>>

\* char::obfuscated: random_char is applied to one character
obfuscated ==
    /\ codec.pc \in {"idle", "done", "panicked"}
    /\ \E input \in InputChars :
         \E out \in random_char(mappers, input) :
            codec' = [pc |-> IF out.kind = "panic" THEN "panicked" ELSE "done",
                      input |-> input, out |-> out]
    /\ UNCHANGED <<cfg, phase, domainInit, handled, pc, sent, gets, upstream,
                   fetched, patched, response, ld, hdr, mappers, txt, json,
                   pw, ow, sr, statics, tasks>>

InitCodec ==
    /\ cfg = ServingCfg
    /\ HandlerIdle
    /\ ld = LdIdle
    /\ hdr = HdrIdle
    /\ mappers = <<>>
    /\ codec = [CodecIdle EXCEPT !.pc = "unloaded"]
    /\ WalkersIdle

NextCodec ==
    \/ init_obfuscator_config
    \/ obfuscated

SpecCodec == InitCodec /\ [][NextCodec]_vars


\* ---------------------------------------------------------- obfuscater.rs
\* the ends of CHINESE_RANGE, '\u{4e00}'..='\u{9fa5}'
CHINESE_RANGE_start == 19968
CHINESE_RANGE_end == 40869

\* values of rand::random::<u32>() % (0x9fa5 - 0x4e00): the least, one in
\* the middle and the greatest
RemainderSamples == {0, 1, 20900}

\* obfuscater.rs random_char, given the remainder r of its random number
random_char_drawn(input, r) ==
    IF CHINESE_RANGE_start <= input /\ input <= CHINESE_RANGE_end
    THEN IF IsChar(r + 19968) THEN r + 19968 ELSE QUESTION_MARK
    ELSE input

\* obfuscater.rs random_char: the characters it may return for the input
obfuscater_random_char(input) ==
    {Char(random_char_drawn(input, r)) : r \in RemainderSamples}

\* ------------------------------------------- obfuscation.rs: text and JSON
\* bounds: characters of one text, elements of one JSON array
MaxTextLen == 2
MaxJsonLen == 2

TextResult(s) == [kind |-> "text", s |-> s]

\* Iterator::collect over chars().map(f), given the outcomes of f at each
\* index, built with the characters in reverse order
RECURSIVE collect_reversed(_)
collect_reversed(outs) ==
    IF outs = <<>> THEN {TextResult(<<>>)}
    ELSE {o \in Head(outs) : o.kind = "panic"}
         \cup UNION {{IF r.kind = "panic" THEN r ELSE TextResult(r.s \o <<o.c>>) :
                        r \in collect_reversed(Tail(outs))} :
                     o \in {x \in Head(outs) : x.kind = "char"}}

\* Iterator::collect over chars().map(f), given the outcomes of f at each
\* index: the texts it may build; a panic of f at some index unwinds
RECURSIVE collect(_)
collect(outs) ==
    IF outs = <<>> THEN {TextResult(<<>>)}
    ELSE {o \in Head(outs) : o.kind = "panic"}
         \cup UNION {{IF r.kind = "panic" THEN r ELSE TextResult(<<o.c>> \o r.s) :
                        r \in collect(Tail(outs))} :
                     o \in {x \in Head(outs) : x.kind = "char"}}

\* obfuscater.rs obfuscate_text
obfuscate_text(text) ==
    collect([i \in 1..Len(text) |-> obfuscater_random_char(text[i])])

\* Obfuscator::obfuscated of &mut Tendril, &mut String and str
obfuscated_str(ms, s) ==
    collect([i \in 1..Len(s) |-> random_char(ms, s[i])])

\* the mapping tables of the text and JSON checks: no row or one row
TextTables == {load_from_csv(r) : r \in SeqsUpTo(Records, 1)}

Texts == SeqsUpTo(InputChars, MaxTextLen)

\* <&mut String as Obfuscator>::obfuscate: the text is replaced by its
\* obfuscation. A run of this specification follows either texts or JSON
\* values.
obfuscate ==
    /\ txt.pc = "idle"
    /\ json = JsonIdle
    /\ \E s \in Texts :
         \E out \in obfuscated_str(mappers, s) :
            txt' = [pc |-> IF out.kind = "panic" THEN "panicked" ELSE "done",
                    by |-> "obfuscation", input |-> s, out |-> out]
    /\ UNCHANGED <<cfg, phase, domainInit, handled, pc, sent, gets, upstream,
                   fetched, patched, response, ld, hdr, mappers, codec, json,
                   pw, ow, sr, statics, tasks>>

\* contents.replace_with(obfuscate_text): a text node is replaced by its
\* obfuscation
replace_with_obfuscate_text ==
    /\ txt.pc = "idle"
    /\ json = JsonIdle
    /\ \E s \in Texts :
         \E out \in obfuscate_text(s) :
            txt' = [pc |-> IF out.kind = "panic" THEN "panicked" ELSE "done",
                    by |-> "obfuscater", input |-> s, out |-> out]
    /\ UNCHANGED <<cfg, phase, domainInit, handled, pc, sent, gets, upstream,
                   fetched, patched, response, ld, hdr, mappers, codec, json,
                   pw, ow, sr, statics, tasks>>


\* serde_json::Value: String, Number, Bool, Null, Array and Object (a Map
\* from keys to values, here the sequence of its entries in iteration order)
JString(s) == [kind |-> "String", s |-> s]
JNumber == [kind |-> "Number", n |-> 1]
JBool == [kind |-> "Bool", b |-> TRUE]
JNull == [kind |-> "Null"]
JArray(items) == [kind |-> "Array", items |-> items]
JObject(entries) == [kind |-> "Object", entries |-> entries]

ValueResult(v) == [kind |-> "value", v |-> v]

\* Value::obfuscate with the String arm applied to the keys of a Map too
RECURSIVE obfuscate_value_keys(_, _)
obfuscate_value_keys(ms, v) ==
    CASE v.kind = "String" ->
           {IF r.kind = "panic" THEN r ELSE ValueResult(JString(r.s)) :
              r \in obfuscated_str(ms, v.s)}
      [] v.kind = "Object" ->
           IF v.entries = <<>> THEN {ValueResult(v)}
           ELSE UNION {
                  IF h.kind = "panic" THEN {h}
                  ELSE UNION {
                         {IF t.kind = "panic" \/ k.kind = "panic"
                          THEN [kind |-> "panic"]
                          ELSE ValueResult(JObject(<<<<k.s, h.v>>>> \o t.v.entries)) :
                            t \in obfuscate_value_keys(ms, JObject(Tail(v.entries)))} :
                         k \in obfuscated_str(ms, Head(v.entries)[1])} :
                  h \in obfuscate_value_keys(ms, Head(v.entries)[2])}
      [] v.kind = "Array" ->
           IF v.items = <<>> THEN {ValueResult(v)}
           ELSE UNION {
                  IF h.kind = "panic" THEN {h}
                  ELSE {IF t.kind = "panic" THEN t
                        ELSE ValueResult(JArray(<<h.v>> \o t.v.items)) :
                          t \in obfuscate_value_keys(ms, JArray(Tail(v.items)))} :
                  h \in obfuscate_value_keys(ms, Head(v.items))}
      [] OTHER -> {ValueResult(v)}

\* <Value as Obfuscator>::obfuscate and <Map as Obfuscator>::obfuscate: the
\* values the walk may leave in place of v; the loops over iter_mut() visit
\* the entries and the elements in order, and a panic of the codec unwinds
RECURSIVE obfuscate_value(_, _)
obfuscate_value(ms, v) ==
    CASE v.kind = "String" ->
           {IF r.kind = "panic" THEN r ELSE ValueResult(JString(r.s)) :
              r \in obfuscated_str(ms, v.s)}
      [] v.kind = "Object" ->
           IF v.entries = <<>> THEN {ValueResult(v)}
           ELSE UNION {
                  IF h.kind = "panic" THEN {h}
                  ELSE {IF t.kind = "panic" THEN t
                        ELSE ValueResult(JObject(<<<<Head(v.entries)[1], h.v>>>>
                                                 \o t.v.entries)) :
                          t \in obfuscate_value(ms, JObject(Tail(v.entries)))} :
                  h \in obfuscate_value(ms, Head(v.entries)[2])}
      [] v.kind = "Array" ->
           IF v.items = <<>> THEN {ValueResult(v)}
           ELSE UNION {
                  IF h.kind = "panic" THEN {h}
                  ELSE {IF t.kind = "panic" THEN t
                        ELSE ValueResult(JArray(<<h.v>> \o t.v.items)) :
                          t \in obfuscate_value(ms, JArray(Tail(v.items)))} :
                  h \in obfuscate_value(ms, Head(v.items))}
      [] OTHER -> {ValueResult(v)}

\* the JSON values of the check: scalars, arrays and objects of scalars,
\* and one more level of nesting around those
JsonKeys == {<<19968>>, <<65>>}
JsonLeaves == {JString(<<19968>>), JString(<<65, 19968>>), JNumber, JBool, JNull}
JsonEntries(values) ==
    {<<>>}
    \cup {<<<<k, v>>>> : k \in JsonKeys, v \in values}
    \cup {<<<<ks[1], v1>>, <<ks[2], v2>>>> :
            ks \in {q \in JsonKeys \X JsonKeys : q[1] # q[2]},
            v1 \in values, v2 \in values}
JsonFlat ==
    JsonLeaves
    \cup {JArray(items) : items \in SeqsUpTo(JsonLeaves, MaxJsonLen)}
    \cup {JObject(entries) : entries \in JsonEntries(JsonLeaves)}
JsonValues ==
    JsonFlat
    \cup {JArray(<<v>>) : v \in JsonFlat}
    \cup {JObject(<<<<k, v>>>>) : k \in JsonKeys, v \in JsonFlat}

\* <Value as Obfuscator>::obfuscate is applied to a parsed JSON value
value_obfuscate ==
    /\ json.pc = "idle"
    /\ txt = TxtIdle
    /\ \E v \in JsonValues :
         \E out \in obfuscate_value(mappers, v) :
            json' = [pc |-> IF out.kind = "panic" THEN "panicked" ELSE "done",
                     input |-> v, out |-> out]
    /\ UNCHANGED <<cfg, phase, domainInit, handled, pc, sent, gets, upstream,
                   fetched, patched, response, ld, hdr, mappers, codec, txt,
                   pw, ow, sr, statics, tasks>>

InitObfuscator ==
    /\ cfg = ServingCfg
    /\ HandlerIdle
    /\ ld = LdIdle
    /\ hdr = HdrIdle
    /\ mappers \in TextTables
    /\ codec = CodecIdle
    /\ WalkersIdle

NextObfuscator ==
    \/ obfuscate
    \/ replace_with_obfuscate_text
    \/ value_obfuscate

SpecObfuscator == InitObfuscator /\ [][NextObfuscator]_vars


\* ------------------------------------------------- main.rs: document trees
\* An RcDom is an arena: a sequence of nodes, a Handle is an index into it,
\* and the children of a node are a sequence of handles. Two parents that
\* hold the same handle share the node, as two Rc<Node> clones do.
\* An attribute a node does not have:
NoAttr == "(absent)"

Document(children) == [kind |-> "Document", children |-> children]
Text(contents) == [kind |-> "Text", contents |-> contents, children |-> <<>>]
\* an Element with its id attribute
Element(name, id, children) ==
    [kind |-> "Element", name |-> name, id |-> id, attr_name |-> NoAttr,
     attr_property |-> NoAttr, content |-> NoAttr, children |-> children]
\* a meta Element with its name, property and content attributes
Meta(name, property, content) ==
    [Element("meta", NoAttr, <<>>) EXCEPT
        !.attr_name = name, !.attr_property = property, !.content = content]

\* bound: ids listed in MIRAGEND_PATCH_REMOVE_NODES
MaxRemoveNodes == 2

\* handles of the parsed page, of the parsed patch fragment, and of the
\* Text node find_elements makes when the fragment has no node
DocumentRoot == 1
FragmentRoot == 13
FallbackText == 18

\* the page
\*   <html><head><meta name=description><title></title>
\*   <meta property=og:title><noscript><meta name=description></noscript>
\*   <meta name=""></head>
\*   <body><div id=a><p id=b>A</p><meta name=description></div>
\*   <div id=c><p id=d>B</p></div></body>
\* and the fragment <p>Y</p>, followed by a text when tail is TRUE (the
\* nodes from handle 19 on belong to the page)
Dom(a, b, c, d, tail) ==
    << Document(<<2>>),
       Element("html", NoAttr, <<3, 4>>),
       Element("head", NoAttr, <<5, 19, 6, 21, 23>>),
       Element("body", NoAttr, <<7, 8>>),
       Meta("description", NoAttr, <<19968>>),
       Meta(NoAttr, "og:title", <<19968>>),
       Element("div", a, <<9, 20>>),
       Element("div", c, <<10>>),
       Element("p", b, <<11>>),
       Element("p", d, <<12>>),
       Text(<<65>>),
       Text(<<66>>),
       Document(<<14>>),
       Element("html", NoAttr, IF tail THEN <<15, 16>> ELSE <<15>>),
       Element("p", NoAttr, <<17>>),
       Text(<<90>>),
       Text(<<89>>),
       Text(<<>>),
       Element("title", NoAttr, <<>>),
       Meta("description", NoAttr, <<19968>>),
       Element("noscript", NoAttr, <<22>>),
       Meta("description", NoAttr, <<19968>>),
       Meta("", NoAttr, <<19968>>) >>

\* ids the elements of a page may carry
PageIds == {NoAttr, "X", "Y"}
Doms == {Dom(a, b, c, d, tail) : a \in PageIds, b \in PageIds, c \in PageIds,
                                 d \in PageIds, tail \in BOOLEAN}

\* ---------------------------------------------------- vars.rs: the lists
\* The text of a setting is a sequence of tokens: an entry or a comma.
\* std::env::var gives Err for a variable that is not set and Ok(text) for
\* one that is:
Unset == [ok |-> FALSE, text |-> <<>>]
Ok(text) == [ok |-> TRUE, text |-> text]
\* Result::unwrap_or_default
unwrap_or_default(env) == IF env.ok THEN env.text ELSE <<>>

\* str::split(','): the fields between the commas; a text without a comma,
\* the empty text included, is one field
RECURSIVE split(_)
split(text) ==
    LET commas == {i \in 1..Len(text) : text[i] = ","}
        field(t) == IF t = <<>> THEN "" ELSE t[1]
    IN IF commas = {} THEN <<field(text)>>
       ELSE LET i == CHOOSE c \in commas : \A d \in commas : c <= d IN
            <<field(SubSeq(text, 1, i - 1))>>
              \o split(SubSeq(text, i + 1, Len(text)))

\* PATCH_REMOVE_NODES: unwrap_or_default, then the split of a text that is
\* not empty and Vec::new() otherwise
patch_remove_nodes(env) ==
    LET text == unwrap_or_default(env) IN
    IF text # <<>> THEN split(text) ELSE <<>>

\* PATCH_REMOVE_META_TAGS: unwrap_or_default, then the split
patch_remove_meta_tags(env) == split(unwrap_or_default(env))

\* OBFUSCATION_IGNORE_NDOES: unwrap_or_default, then the split
obfuscation_ignore_nodes(env) == split(unwrap_or_default(env))

\* the text that lists the entries with commas in between
RECURSIVE Join(_)
Join(list) ==
    IF Len(list) <= 1 THEN list ELSE <<Head(list), ",">> \o Join(Tail(list))

\* PatchConfig: target, remove_nodes, remove_meta_tags, with the settings
\* (env) the two lists were read from
PatchConfigs ==
    {[target |-> t,
      remove_nodes |-> patch_remove_nodes(nodes),
      remove_meta_tags |-> patch_remove_meta_tags(tags),
      env |-> [remove_nodes |-> nodes, remove_meta_tags |-> tags]] :
        t \in {"X", "Z"},
        nodes \in {Unset} \cup {Ok(Join(l)) : l \in SeqsUpTo({"Y", "Z"}, MaxRemoveNodes)},
        tags \in {Unset, Ok(<<"description">>),
                  Ok(<<"og:title", ",", "description">>)}}

\* the for loop of replace_children from the i-th child on: `return` ends
\* the loop of this call, the loops of the callers go on
RECURSIVE replace_children_from(_, _, _, _, _)
replace_children_from(dom, children, i, target_id, new_children) ==
    IF i > Len(children) THEN dom
    ELSE LET child == children[i] IN
         IF dom[child].kind = "Element" /\ dom[child].id = target_id
         THEN [dom EXCEPT ![child].children = new_children]
         ELSE replace_children_from(
                replace_children_from(dom, dom[child].children, 1,
                                      target_id, new_children),
                children, i + 1, target_id, new_children)

replace_children(dom, handle, target_id, new_children) ==
    replace_children_from(dom, dom[handle].children, 1, target_id, new_children)

remove_children(dom, handle, target_id) ==
    replace_children(dom, handle, target_id, <<>>)

\* the loop `for node in config.remove_nodes` of patch_page
RECURSIVE remove_nodes_loop(_, _)
remove_nodes_loop(dom, remove_nodes) ==
    IF remove_nodes = <<>> THEN dom
    ELSE remove_nodes_loop(remove_children(dom, DocumentRoot, Head(remove_nodes)),
                           Tail(remove_nodes))

\* tags.contains(&value) on an attribute that find_attr found
Contains(tags, attr) == attr # NoAttr /\ \E i \in 1..Len(tags) : tags[i] = attr

is_retain_name_only(dom, head_child, tags) ==
    LET n == dom[head_child] IN
    ~(n.kind = "Element" /\ n.name = "meta" /\ Contains(tags, n.attr_name))

\* the closure of children.retain in remove_meta_tags
is_retain(dom, head_child, tags) ==
    LET n == dom[head_child] IN
    ~(/\ n.kind = "Element"
      /\ n.name = "meta"
      /\ (Contains(tags, n.attr_name) \/ Contains(tags, n.attr_property)))

\* the for loop of remove_meta_tags from the i-th child on
RECURSIVE remove_meta_tags_from(_, _, _, _)
remove_meta_tags_from(dom, children, i, tags) ==
    IF i > Len(children) THEN dom
    ELSE LET child == children[i]
             next == IF dom[child].kind = "Element" /\ dom[child].name = "head"
                     THEN [dom EXCEPT ![child].children =
                              SelectSeq(@, LAMBDA c : is_retain(dom, c, tags))]
                     ELSE remove_meta_tags_from(dom, dom[child].children, 1, tags)
         IN remove_meta_tags_from(next, children, i + 1, tags)

remove_meta_tags(dom, handle, tags) ==
    remove_meta_tags_from(dom, dom[handle].children, 1, tags)

\* find_elements: the children of the html element the fragment parser
\* wraps the fragment in
RECURSIVE find_elements(_, _)
find_elements(dom, handle) ==
    IF dom[handle].children # <<>>
    THEN LET child == dom[handle].children[1] IN
         IF dom[child].kind = "Element" /\ dom[child].name = "html"
         THEN dom[child].children
         ELSE find_elements(dom, child)
    ELSE <<FallbackText>>


\* the Strategy::Patch arm of patch_page giving up after a replace_children
\* that found no target
patch_steps_abort(dom, config) ==
    LET replaced == replace_children(dom, DocumentRoot, config.target,
                                     find_elements(dom, FragmentRoot))
        removed == remove_nodes_loop(replaced, config.remove_nodes)
        stripped == remove_meta_tags(removed, DocumentRoot, config.remove_meta_tags)
    IN IF replaced = dom
       THEN [replaced |-> dom, removed |-> dom, out |-> dom,
             ran |-> <<"replace_children">>]
       ELSE [replaced |-> replaced, removed |-> removed, out |-> stripped,
             ran |-> <<"replace_children">>
                     \o [i \in 1..Len(config.remove_nodes) |-> "remove_children"]
                     \o <<"remove_meta_tags">>]

\* the Strategy::Patch arm of patch_page: replace_children, remove_children
\* for each id to delete, remove_meta_tags; the document after each step and
\* the calls made
patch_steps(dom, config) ==
    LET replaced == replace_children(dom, DocumentRoot, config.target,
                                     find_elements(dom, FragmentRoot))
        removed == remove_nodes_loop(replaced, config.remove_nodes)
        stripped == remove_meta_tags(removed, DocumentRoot, config.remove_meta_tags)
    IN [replaced |-> replaced, removed |-> removed, out |-> stripped,
        ran |-> <<"replace_children">>
                \o [i \in 1..Len(config.remove_nodes) |-> "remove_children"]
                \o <<"remove_meta_tags">>]

\* patch_page parses the page and the patch content
parse_document ==
    /\ pw.pc = "idle"
    /\ \E dom \in Doms, config \in PatchConfigs :
         pw' = [pc |-> "parsed", dom |-> dom, config |-> config]
    /\ UNCHANGED <<cfg, phase, domainInit, handled, pc, sent, gets, upstream,
                   fetched, patched, response, ld, hdr, mappers, codec, txt,
                   json, ow, sr, statics, tasks>>

\* patch_page runs the steps of Strategy::Patch on the parsed page
patch ==
    /\ pw.pc = "parsed"
    /\ LET r == patch_steps(pw.dom, pw.config) IN
       pw' = [pc |-> "done", dom |-> pw.dom, config |-> pw.config,
              replaced |-> r.replaced, removed |-> r.removed, out |-> r.out,
              ran |-> r.ran]
    /\ UNCHANGED <<cfg, phase, domainInit, handled, pc, sent, gets, upstream,
                   fetched, patched, response, ld, hdr, mappers, codec, txt,
                   json, ow, sr, statics, tasks>>

InitPatch ==
    /\ cfg = [ServingCfg EXCEPT !.strategy = "patch"]
    /\ HandlerIdle
    /\ ld = LdIdle
    /\ hdr = HdrIdle
    /\ mappers = <<>>
    /\ codec = CodecIdle
    /\ WalkersIdle

NextPatch ==
    \/ parse_document
    \/ patch

SpecPatch == InitPatch /\ [][NextPatch]_vars


\* ------------------------------------ special_response.rs as a pure function
\* bound: calls of build_resp in one run
MaxBuilds == 3

\* status codes given to the builder: one it is never given by the handler,
\* the three of the proxy, and one without a canonical reason phrase
SpecialStatuses == {404, 500, 502, 504, 599}

\* build_resp is called with a status code and returns its response
build_resp_returns ==
    /\ Len(sr.calls) < MaxBuilds
    /\ \E status_code \in SpecialStatuses :
         sr' = [sr EXCEPT !.calls =
                  Append(@, [status_code |-> status_code,
                             resp |-> build_resp(status_code, cfg.style)])]
    /\ UNCHANGED <<cfg, phase, domainInit, handled, pc, sent, gets, upstream,
                   fetched, patched, response, ld, hdr, mappers, codec, txt,
                   json, pw, ow, statics, tasks>>

InitSpecial ==
    /\ cfg \in [base : {"domain"}, strategy : {"obfuscation"}, style : Styles]
    /\ HandlerIdle
    /\ ld = LdIdle
    /\ hdr = HdrIdle
    /\ mappers = <<>>
    /\ codec = CodecIdle
    /\ WalkersIdle

NextSpecial ==
    \/ build_resp_returns

SpecSpecial == InitSpecial /\ [][NextSpecial]_vars


\* ------------------------------------------- main.rs: obfuscate_content
IGNORE_OBFUSCATION_TAGS_no_script == {"noscript", "style", "template", "iframe"}
IGNORE_OBFUSCATION_TAGS == {"script", "noscript", "style", "template", "iframe"}
FALLBACK_OBFUSCATION_MESTA_TAGS ==
    <<"description", "keywords", "og:title", "og:description">>

\* bound: MIRAGEND_OBFUSCATION_IGNORE_LEN
MaxIgnoreLen == 2
\* bound: the random numbers one walk may draw, at least one for each
\* mapped character of the page
WalkDraws == 7

\* the page
\*   <html><head><meta name=description content=U+4E00><title>U+4E00</title>
\*   <meta name=viewport content=U+4E00></head>
\*   <body><div id=a>U+4E00<meta name=keywords content=U+4E00></div>
\*   <script>U+4E00</script><div id=b>U+4E00 space U+4E00</div></body>
ObfDom(a, b) ==
    << Document(<<2>>),
       Element("html", NoAttr, <<3, 4>>),
       Element("head", NoAttr, <<5, 6, 15>>),
       Element("body", NoAttr, <<8, 9, 10>>),
       Meta("description", NoAttr, <<19968>>),
       Element("title", NoAttr, <<7>>),
       Text(<<19968>>),
       Element("div", a, <<11, 14>>),
       Element("script", NoAttr, <<12>>),
       Element("div", b, <<13>>),
       Text(<<19968>>),
       Text(<<19968>>),
       Text(<<19968, 32, 19968>>),
       Meta("keywords", NoAttr, <<19968>>),
       Meta("viewport", NoAttr, <<19968>>) >>

\* the first div may carry an id attribute with the empty value
ObfDoms == {ObfDom(a, b) : a \in {NoAttr, "P", "K", ""}, b \in {NoAttr, "P", "K"}}

\* the settings of vars.rs the walker is configured with, with the setting
\* (env) the ignore list was read from; MIRAGEND_OBFUSCATION_META_TAGS is
\* not set
ObfConfigs ==
    {[ignore_nodes |-> obfuscation_ignore_nodes(nodes),
      meta_tags |-> FALLBACK_OBFUSCATION_MESTA_TAGS,
      ignore_after_node |-> after,
      ignore_len |-> len,
      env |-> [ignore_nodes |-> nodes]] :
        nodes \in {Unset, Ok(<<"K">>)}, after \in {"", "P"}, len \in 0..MaxIgnoreLen}

\* obfuscate_text on one text, taking the random numbers of its mapped
\* characters from draws, after the k already taken: the text and the count
RECURSIVE obfuscate_text_drawn(_, _, _)
obfuscate_text_drawn(text, draws, k) ==
    IF text = <<>> THEN [s |-> <<>>, k |-> k]
    ELSE LET c == Head(text)
             mapped == CHINESE_RANGE_start <= c /\ c <= CHINESE_RANGE_end
             rest == obfuscate_text_drawn(Tail(text), draws,
                                          IF mapped THEN k + 1 ELSE k)
         IN [s |-> <<IF mapped THEN random_char_drawn(c, draws[k + 1]) ELSE c>>
                   \o rest.s,
             k |-> rest.k]

\* the closure update_content of obfuscate_content on a meta element
update_content(w, child, name_or_property, config, draws) ==
    IF Contains(config.meta_tags, name_or_property)
       /\ w.dom[child].content # NoAttr
    THEN LET r == obfuscate_text_drawn(w.dom[child].content, draws, w.k) IN
         [dom |-> [w.dom EXCEPT ![child].content = r.s], k |-> r.k]
    ELSE w

\* the for loop of obfuscate_content from the i-th child on; w is the
\* document and the count of random numbers taken so far
RECURSIVE obfuscate_content_from(_, _, _, _, _)
obfuscate_content_from(w, children, i, config, draws) ==
    IF i > Len(children) THEN w
    ELSE LET child == children[i]
             n == w.dom[child]
             next ==
               IF n.kind = "Element"
               THEN IF Contains(config.ignore_nodes, n.id) THEN w
                    ELSE IF n.name \in IGNORE_OBFUSCATION_TAGS THEN w
                    ELSE IF n.name = "meta"
                    THEN update_content(
                           update_content(w, child, n.attr_name, config, draws),
                           child, n.attr_property, config, draws)
                    ELSE obfuscate_content_from(w, n.children, 1, config, draws)
               ELSE IF n.kind = "Text"
               THEN LET r == obfuscate_text_drawn(n.contents, draws, w.k) IN
                    [dom |-> [w.dom EXCEPT ![child].contents = r.s], k |-> r.k]
               ELSE obfuscate_content_from(w, n.children, 1, config, draws)
         IN obfuscate_content_from(next, children, i + 1, config, draws)

obfuscate_content(dom, handle, config, draws) ==
    obfuscate_content_from([dom |-> dom, k |-> 0], dom[handle].children, 1,
                           config, draws).dom

\* html_ops.rs find_meta_tags: every meta element under the children of a
\* node, in document order (main.rs does not call it)
RECURSIVE find_meta_tags(_, _)
find_meta_tags(dom, children) ==
    IF children = <<>> THEN <<>>
    ELSE LET child == Head(children) IN
         (IF dom[child].kind = "Element"
          THEN (IF dom[child].name = "meta" THEN <<child>> ELSE <<>>)
               \o find_meta_tags(dom, dom[child].children)
          ELSE <<>>)
         \o find_meta_tags(dom, Tail(children))

\* patch_page parses the page under Strategy::Obfuscation
parse_for_obfuscation ==
    /\ ow.pc = "idle"
    /\ \E dom \in ObfDoms, config \in ObfConfigs :
         ow' = [pc |-> "parsed", dom |-> dom, config |-> config]
    /\ UNCHANGED <<cfg, phase, domainInit, handled, pc, sent, gets, upstream,
                   fetched, patched, response, ld, hdr, mappers, codec, txt,
                   json, pw, sr, statics, tasks>>

\* patch_page runs obfuscate_content on the parsed page
obfuscate_page ==
    /\ ow.pc = "parsed"
    /\ \E draws \in [1..WalkDraws -> {0, 20900}] :
         ow' = [pc |-> "done", dom |-> ow.dom, config |-> ow.config,
                draws |-> draws,
                out |-> obfuscate_content(ow.dom, DocumentRoot, ow.config, draws)]
    /\ UNCHANGED <<cfg, phase, domainInit, handled, pc, sent, gets, upstream,
                   fetched, patched, response, ld, hdr, mappers, codec, txt,
                   json, pw, sr, statics, tasks>>

InitWalk ==
    /\ cfg = ServingCfg
    /\ HandlerIdle
    /\ ld = LdIdle
    /\ hdr = HdrIdle
    /\ mappers = <<>>
    /\ codec = CodecIdle
    /\ WalkersIdle

NextWalk ==
    \/ parse_for_obfuscation
    \/ obfuscate_page

SpecWalk == InitWalk /\ [][NextWalk]_vars


\* ------------------------- main.rs / vars.rs: requests handled concurrently
\* axum runs handler() as one task for each request; the tasks share the
\* LazyLock statics of vars.rs and nothing else.
Tasks == 1..MaxRequests

\* the statics handler() and the walkers dereference, in the order of use
StaticNames ==
    {"STRATEGY", "PATCH_TARGET", "PATCH_REMOVE_NODES", "PATCH_REMOVE_META_TAGS",
     "OBFUSCATION_IGNORE_NDOES"}

\* the state of the Once of a LazyLock
Incomplete == [state |-> "Incomplete"]
Running == [state |-> "Running"]
Complete(value) == [state |-> "Complete", value |-> value]

\* the closure of each LazyLock, on the environment of the process
initializer(name, env) ==
    CASE name = "STRATEGY" -> cfg.strategy
      [] name = "PATCH_TARGET" -> env.target
      [] name = "PATCH_REMOVE_NODES" -> patch_remove_nodes(env.remove_nodes)
      [] name = "PATCH_REMOVE_META_TAGS" ->
           patch_remove_meta_tags(env.remove_meta_tags)
      [] name = "OBFUSCATION_IGNORE_NDOES" ->
           obfuscation_ignore_nodes(env.ignore_nodes)

\* the environments of a run: every list setting unset, or every one set
Environments ==
    {[target |-> "X", remove_nodes |-> Unset, remove_meta_tags |-> Unset,
      ignore_nodes |-> Unset],
     [target |-> "X", remove_nodes |-> Ok(<<"Y">>),
      remove_meta_tags |-> Ok(<<"description">>), ignore_nodes |-> Ok(<<"K">>)]}

\* a task that handles no request; read holds the values the task got from
\* the statics, dom and out the document trees patch_page owns
TaskIdle ==
    [pc |-> "idle", forcing |-> FALSE, read |-> [n \in StaticNames |-> NotRead],
     dom |-> <<>>, out |-> <<>>]

Read(value) == [kind |-> "Read", value |-> value]

\* where a task goes after the dereference of a static: handler() reads
\* STRATEGY and, for "patch", the three patch settings before it fetches;
\* obfuscate_content reads the ignore list when it walks the fetched page
after_deref(name, value) ==
    CASE name = "STRATEGY" -> IF value = "patch" THEN "PATCH_TARGET" ELSE "fetch"
      [] name = "PATCH_TARGET" -> "PATCH_REMOVE_NODES"
      [] name = "PATCH_REMOVE_NODES" -> "PATCH_REMOVE_META_TAGS"
      [] name = "PATCH_REMOVE_META_TAGS" -> "fetch"
      [] name = "OBFUSCATION_IGNORE_NDOES" -> "patch_page"

\* Once::call_once runs the closure only for the caller that finds the Once
\* incomplete; a caller that finds it running waits
may_initialize_unsynchronized(cell) == cell.state # "Complete"
may_initialize(cell) == cell.state = "Incomplete"

\* axum accepts a request and spawns its handler task
accept(t) ==
    /\ tasks[t].pc = "idle"
    /\ tasks' = [tasks EXCEPT ![t].pc = "STRATEGY"]
    /\ UNCHANGED <<cfg, phase, domainInit, handled, pc, sent, gets, upstream,
                   fetched, patched, response, ld, hdr, mappers, codec, txt,
                   json, pw, ow, sr, statics>>

\* LazyLock::force, first caller: the task starts to run the closure
force_begins(t) ==
    /\ tasks[t].pc \in StaticNames
    /\ ~tasks[t].forcing
    /\ may_initialize(statics.cell[tasks[t].pc])
    /\ statics' = [statics EXCEPT !.cell[tasks[t].pc] = Running]
    /\ tasks' = [tasks EXCEPT ![t].forcing = TRUE]
    /\ UNCHANGED <<cfg, phase, domainInit, handled, pc, sent, gets, upstream,
                   fetched, patched, response, ld, hdr, mappers, codec, txt,
                   json, pw, ow, sr>>

\* the closure returns: the value is stored and the Once is complete
force_ends(t) ==
    /\ tasks[t].pc \in StaticNames
    /\ tasks[t].forcing
    /\ statics' = [statics EXCEPT
                     !.cell[tasks[t].pc] =
                        Complete(initializer(tasks[t].pc, statics.env)),
                     !.runs[tasks[t].pc] = @ + 1]
    /\ tasks' = [tasks EXCEPT ![t].forcing = FALSE]
    /\ UNCHANGED <<cfg, phase, domainInit, handled, pc, sent, gets, upstream,
                   fetched, patched, response, ld, hdr, mappers, codec, txt,
                   json, pw, ow, sr>>

\* Deref of a LazyLock whose Once is complete: the task gets the value
deref(t) ==
    /\ tasks[t].pc \in StaticNames
    /\ ~tasks[t].forcing
    /\ statics.cell[tasks[t].pc].state = "Complete"
    /\ LET name == tasks[t].pc
           value == statics.cell[name].value
       IN tasks' = [tasks EXCEPT ![t].read[name] = Read(value),
                                 ![t].pc = after_deref(name, value)]
    /\ UNCHANGED <<cfg, phase, domainInit, handled, pc, sent, gets, upstream,
                   fetched, patched, response, ld, hdr, mappers, codec, txt,
                   json, pw, ow, sr, statics>>

\* fetch() returns the page of the upstream and patch_page parses it (and,
\* under Strategy::Patch, the patch content) into trees of its own
page_parsed(t) ==
    /\ tasks[t].pc = "fetch"
    /\ IF tasks[t].read["STRATEGY"].value = "patch"
       THEN \E dom \in {Dom("Y", "X", NoAttr, "X", FALSE),
                        Dom(NoAttr, NoAttr, "X", "Y", TRUE)} :
              tasks' = [tasks EXCEPT ![t].dom = dom, ![t].pc = "patch_page"]
       ELSE \E dom \in {ObfDom("K", NoAttr), ObfDom("", "K")} :
              tasks' = [tasks EXCEPT ![t].dom = dom,
                                     ![t].pc = "OBFUSCATION_IGNORE_NDOES"]
    /\ UNCHANGED <<cfg, phase, domainInit, handled, pc, sent, gets, upstream,
                   fetched, patched, response, ld, hdr, mappers, codec, txt,
                   json, pw, ow, sr, statics>>

\* the walker of the strategy, on the tree and the configuration of a task
transform_of(task, draws) ==
    IF task.read["STRATEGY"].value = "patch"
    THEN patch_steps(task.dom,
                     [target |-> task.read["PATCH_TARGET"].value,
                      remove_nodes |-> task.read["PATCH_REMOVE_NODES"].value,
                      remove_meta_tags |->
                         task.read["PATCH_REMOVE_META_TAGS"].value]).out
    ELSE obfuscate_content(task.dom, DocumentRoot,
                           [ignore_nodes |->
                               task.read["OBFUSCATION_IGNORE_NDOES"].value,
                            meta_tags |-> FALLBACK_OBFUSCATION_MESTA_TAGS],
                           draws)

\* the random numbers of a walk: all of them the least or all the greatest
ConstantDraws == {[k \in 1..WalkDraws |-> r] : r \in {0, 20900}}

\* patch_page runs the walker of the strategy on the tree of the task
transform(t) ==
    /\ tasks[t].pc = "patch_page"
    /\ \E draws \in ConstantDraws :
         tasks' = [tasks EXCEPT ![t].out = transform_of(tasks[t], draws),
                                ![t].pc = "done"]
    /\ UNCHANGED <<cfg, phase, domainInit, handled, pc, sent, gets, upstream,
                   fetched, patched, response, ld, hdr, mappers, codec, txt,
                   json, pw, ow, sr, statics>>

\* handler() returns its response: the task and its trees are dropped
respond(t) ==
    /\ tasks[t].pc = "done"
    /\ tasks' = [tasks EXCEPT ![t] = TaskIdle]
    /\ UNCHANGED <<cfg, phase, domainInit, handled, pc, sent, gets, upstream,
                   fetched, patched, response, ld, hdr, mappers, codec, txt,
                   json, pw, ow, sr, statics>>

InitConc ==
    /\ cfg \in [base : {"domain"}, strategy : {"patch", "obfuscation"},
                style : {"None"}]
    /\ HandlerIdle
    /\ ld = LdIdle
    /\ hdr = HdrIdle
    /\ mappers = <<>>
    /\ codec = CodecIdle
    /\ txt = TxtIdle
    /\ json = JsonIdle
    /\ pw = PwIdle
    /\ ow = OwIdle
    /\ sr = SrIdle
    /\ statics \in [env : Environments,
                    cell : {[n \in StaticNames |-> Incomplete]},
                    runs : {[n \in StaticNames |-> 0]}]
    /\ tasks = [t \in Tasks |-> TaskIdle]

NextConc ==
    \E t \in Tasks :
       \/ accept(t)
       \/ force_begins(t)
       \/ force_ends(t)
       \/ deref(t)
       \/ page_parsed(t)
       \/ transform(t)
       \/ respond(t)

SpecConc == InitConc /\ [][NextConc]_vars


\* ================================================================= claims

\* the six response headers the specification says are not forwarded
NotForwarded ==
    {"connection", "content-length", "content-encoding", "etag",
     "last-modified", "transfer-encoding"}

\* the content type of a successful response, as the specification reads it
CtAbsent(headers) == ~HeaderContainsKey(headers, CONTENT_TYPE)
CtReadable(headers) ==
    HeaderContainsKey(headers, CONTENT_TYPE) /\ ToStrOk(HeaderGet(headers, CONTENT_TYPE))
CtIsHtml(headers) ==
    CtAbsent(headers)
    \/ (CtReadable(headers) /\ StartsWith(HeaderGet(headers, CONTENT_TYPE), TextHtml))
CtIsJson(headers) ==
    CtReadable(headers) /\ StartsWith(HeaderGet(headers, CONTENT_TYPE), ApplicationJson)

\* the content type tag of a Forward outcome (main.rs forwards HTML only
\* and its RespForwarding has no tag)
ForwardContentType(f) ==
    IF "content_type" \in DOMAIN f THEN f.content_type ELSE "Html"

\* a fallback page of the Special-Response Builder
IsFallbackBody(body) == body.kind \in {"plain", "nginx"}

\* C1: in the fetch stage (fetching::load) a timeout of the transport gives
\* Special(504); any other transport error, an unsupported or unreadable
\* content type and a failed read of the body each give Special(502); no
\* other Special status is produced.
C1_FetchFailureStatuses ==
    ld.pc = "done" =>
      /\ (ld.send.kind = "Err" /\ ld.send.is_timeout)
            => ld.out = Special(504)
      /\ (ld.send.kind = "Err" /\ ~ld.send.is_timeout)
            => ld.out = Special(502)
      /\ ld.gets = 0 => ld.out = Special(502)
      /\ (ld.resp.tag = "Response" /\ ~CtIsHtml(ld.resp.headers)
                                   /\ ~CtIsJson(ld.resp.headers))
            => ld.out = Special(502)
      /\ (ld.resp.tag = "Response" /\ ld.resp.text.kind = "Err")
            => ld.out = Special(502)
      /\ ld.out.tag = "Special" => ld.out.status \in {502, 504}

\* C1 witness: a load() that ended on a timeout of send() with Special(504)
C1_Witness ==
    /\ ld.pc = "done"
    /\ ld.send.kind = "Err" /\ ld.send.is_timeout
    /\ ld.out = Special(504)

\* what C2 says of one fetch outcome for one successful upstream response
ClassifiedByContentType(resp, out) ==
    LET carries == /\ out.status = resp.status
                   /\ out.headers = resp.headers
                   /\ out.body = [kind |-> "raw", text |-> resp.text.body]
    IN /\ CtIsHtml(resp.headers)
            => (out.tag = "Forward" /\ ForwardContentType(out) = "Html" /\ carries)
       /\ CtIsJson(resp.headers)
            => (out.tag = "Forward" /\ ForwardContentType(out) = "Json" /\ carries)
       /\ (~CtIsHtml(resp.headers) /\ ~CtIsJson(resp.headers))
            => out = Special(502)

\* C2: for every successful upstream response (its body read), the outcome
\* of the handler's fetch stage depends on the content type only: absent or
\* "text/html..." is Forward/HTML, "application/json..." is Forward/JSON,
\* anything else is Special(502); a Forward carries the upstream status,
\* headers and body.
C2_ClassificationByContentType ==
    (pc = "done" /\ upstream.tag = "Response" /\ upstream.text.kind # "Err")
        => ClassifiedByContentType(upstream, fetched)

\* fetching::load does classify as C2 says
LoadClassifiesByContentType ==
    (ld.pc = "done" /\ ld.resp.tag = "Response" /\ ld.resp.text.kind # "Err")
        => ClassifiedByContentType(ld.resp, ld.out)

\* C3: when the fetch outcome is Special(s) the response has status s and the
\* body of the Special-Response Builder, no parse, walker or serialize step
\* ran, and no upstream header or body is in the response.
C3_SpecialSkipsTransform ==
    (pc = "done" /\ fetched.tag = "Special") =>
      /\ response.tag = "Response"
      /\ response.status = fetched.status
      /\ IsFallbackBody(response.body)
      /\ response.body = build_body(fetched.status, cfg.style)
      /\ patched = NotPatched
      /\ \A n \in HeaderNames(response.headers) :
            /\ n = "content-type"
            /\ HeaderValues(response.headers, n) = <<CONTENT_TYPE_VALUE_TEXT_HTML>>

\* C3 witness: an upstream response with headers was classified Special and
\* answered with the fallback page of that status
C3_Witness ==
    /\ pc = "done"
    /\ fetched = Special(502)
    /\ upstream.tag = "Response"
    /\ HeaderContainsKey(upstream.headers, SET_COOKIE)
    /\ response.status = 502

\* C4: when the outcome is Forward and parsing or serializing fails, the
\* client gets the fallback page with status 500, never the raw or a partly
\* transformed body; when the transformation succeeds it gets the
\* transformed body with the upstream status.
C4_TransformOrFallback500 ==
    (pc = "done" /\ fetched.tag = "Forward") =>
      IF patched.result = "ok"
      THEN /\ response.status = fetched.status
           /\ response.body = [kind |-> "transformed",
                               by |-> strategy_of(cfg.strategy),
                               of |-> fetched.body.text]
      ELSE /\ response.status = 500
           /\ IsFallbackBody(response.body)
           /\ response.body = build_body(500, cfg.style)
           /\ response.headers = build_resp(500, cfg.style).headers

\* C4 witness: a forwarded page whose serialization failed was answered 500
C4_Witness ==
    /\ pc = "done"
    /\ fetched.tag = "Forward"
    /\ fetched.status = 200
    /\ patched.result = "serialize_err"
    /\ response.status = 500

\* C5: at most one upstream GET is issued for a request; after a failure no
\* request is in flight and the response is the one that failure fixed.
C5_AtMostOneGet ==
    /\ gets <= 1
    /\ (pc = "done" /\ fetched.tag = "Special") =>
          /\ sent = NoGet
          /\ response.tag = "Response"
          /\ response.status = fetched.status

\* C5 witness: a request ended on a timeout after its single GET
C5_Witness ==
    /\ pc = "done"
    /\ gets = 1
    /\ fetched = Special(504)
    /\ response.status = 504

\* C6: no request ends its handling task without a response, and a response
\* is the transformed upstream page or a fallback page with status 500, 502
\* or 504.
C6_AlwaysAResponse ==
    /\ pc # "panicked"
    /\ pc = "done" =>
          /\ response.tag = "Response"
          /\ \/ response.body.kind = "transformed"
             \/ IsFallbackBody(response.body) /\ response.status \in {500, 502, 504}

\* C7: build_from_request returns every inbound (name, value) pair unchanged,
\* every value of a repeated name included, except that Host carries the
\* upstream domain; it returns no header that was not inbound.
C7_OutboundHeadersKeepAllValues ==
    hdr.pc = "built" =>
      /\ HeaderNames(hdr.out) = HeaderNames(hdr.source)
      /\ \A n \in HeaderNames(hdr.source) :
            IF n = "host"
            THEN \A i \in 1..Len(HeaderValues(hdr.out, n)) :
                    HeaderValues(hdr.out, n)[i] = OriginDomain
            ELSE HeaderValues(hdr.out, n) = HeaderValues(hdr.source, n)

\* C8: a forwarded response has every upstream header with all its values,
\* except the six headers that are not forwarded, of which it has none.
C8_ResponseHeadersFiltered ==
    (pc = "done" /\ fetched.tag = "Forward" /\ patched.result = "ok") =>
      /\ \A n \in HeaderNames(upstream.headers) \ NotForwarded :
            HeaderValues(response.headers, n) = HeaderValues(upstream.headers, n)
      /\ \A n \in NotForwarded : ~HeaderContainsKey(response.headers, n)
      /\ HeaderNames(response.headers) \subseteq HeaderNames(upstream.headers)

\* C8 witness: a forwarded response whose upstream sent an ETag and a
\* Set-Cookie, of which the response has the Set-Cookie
C8_Witness ==
    /\ pc = "done"
    /\ fetched.tag = "Forward"
    /\ patched.result = "ok"
    /\ HeaderContainsKey(upstream.headers, ETAG)
    /\ HeaderContainsKey(upstream.headers, SET_COOKIE)
    /\ HeaderNames(response.headers) = {SET_COOKIE}

\* the input lies in the source range [source_start, source_end] of row i,
\* both ends included
InSourceRange(i) ==
    mappers[i].source_start <= codec.input /\ codec.input <= mappers[i].source_end

\* the range target_start..target_end of row i holds a value that is no char
TargetHasNonChar(i) ==
    mappers[i].target_start < 57344 /\ mappers[i].target_end > 55295

\* C9: for the first mapping whose source range [a,b], both ends included,
\* holds the input, the codec returns a character of its target range [c,d]
\* (or the placeholder, when [c,d] holds values that are no characters).
\* Stated for the rows whose target range c <= d is not empty.
C9_MappedIntoTargetRange ==
    codec.pc = "done" =>
      \A i \in 1..Len(mappers) :
        (/\ InSourceRange(i)
         /\ \A j \in 1..(i - 1) : ~InSourceRange(j)
         /\ mappers[i].target_start <= mappers[i].target_end) =>
          \/ /\ mappers[i].target_start <= codec.out.c
             /\ codec.out.c <= mappers[i].target_end
          \/ TargetHasNonChar(i) /\ codec.out.c = 63

\* C10: a character outside every source range is returned unchanged; with
\* an empty table the codec is the identity.
C10_UnmappedUnchanged ==
    (codec.pc \in {"done", "panicked"}
       /\ \A i \in 1..Len(mappers) : ~InSourceRange(i))
      => codec.out = Char(codec.input)

\* C10 witness: with a table that is not empty, a character of no source
\* range came back unchanged
C10_Witness ==
    /\ codec.pc = "done"
    /\ Len(mappers) = 2
    /\ codec.input = 40869
    /\ \A i \in 1..Len(mappers) : ~InSourceRange(i)
    /\ codec.out = Char(40869)

\* C11: the codec never fails: for every input character and every table
\* load_from_csv can produce (four valid code points per row, in any order)
\* it returns a character, and a draw that is no Unicode scalar value is
\* returned as the placeholder '?'.
C11_CodecNeverFails ==
    /\ codec.pc # "panicked"
    /\ codec.pc = "done" =>
          /\ codec.out.kind = "char"
          /\ IsChar(codec.out.c)

\* the codec the text obfuscator of txt.by applies to one character
CodecOf(by, c) ==
    IF by = "obfuscation" THEN random_char(mappers, c) ELSE obfuscater_random_char(c)

\* the character is in no source range of that codec, ends included
UnmappedBy(by, c) ==
    IF by = "obfuscation"
    THEN \A i \in 1..Len(mappers) :
            ~(mappers[i].source_start <= c /\ c <= mappers[i].source_end)
    ELSE ~(19968 <= c /\ c <= 40869)

\* C12: full-mode text obfuscation returns a text with as many characters as
\* its input, whose character at each index i is an outcome of the codec on
\* the input character at index i, so that an unmapped character stays at
\* its index unchanged; it returns no text only when the codec itself fails
\* at some index.
C12_FullModeKeepsLengthAndIndex ==
    /\ txt.pc = "done" =>
          /\ txt.out.kind = "text"
          /\ Len(txt.out.s) = Len(txt.input)
          /\ \A i \in 1..Len(txt.input) :
                /\ Char(txt.out.s[i]) \in CodecOf(txt.by, txt.input[i])
                /\ UnmappedBy(txt.by, txt.input[i]) => txt.out.s[i] = txt.input[i]
    /\ txt.pc = "panicked" =>
          \E i \in 1..Len(txt.input) :
             [kind |-> "panic"] \in CodecOf(txt.by, txt.input[i])

\* C12 witness: of the text "A" U+4E00 the mapped second character was
\* replaced and the unmapped first one stayed at its index
C12_Witness ==
    /\ txt.pc = "done"
    /\ txt.by = "obfuscation"
    /\ txt.input = <<65, 19968>>
    /\ Len(txt.out.s) = 2
    /\ txt.out.s[1] = 65
    /\ txt.out.s[2] = 57344

\* the handles under a sequence of children, in pre-order document order
RECURSIVE PreOrder(_, _)
PreOrder(dom, children) ==
    IF children = <<>> THEN <<>>
    ELSE <<Head(children)>> \o PreOrder(dom, dom[Head(children)].children)
                            \o PreOrder(dom, Tail(children))

\* the elements of the document that have the id, in document order
ElementsWithId(dom, id) ==
    SelectSeq(PreOrder(dom, dom[1].children),
              LAMBDA h : dom[h].kind = "Element" /\ dom[h].id = id)

\* the top-level nodes of the patch fragment, in fragment order
FragmentTopLevel(dom) == dom[14].children

\* C13: after the replace step of the Patch walker with target id X, on a
\* document with one or more elements of id X, the first such element in
\* pre-order has the fragment's top-level nodes as its children, in fragment
\* order; it stays in place, and every other node keeps its children.
C13_ReplacesFirstMatchOnly ==
    (pw.pc = "done" /\ ElementsWithId(pw.dom, pw.config.target) # <<>>) =>
      LET first == ElementsWithId(pw.dom, pw.config.target)[1] IN
      /\ pw.replaced[first].children = FragmentTopLevel(pw.dom)
      /\ \A h \in 1..Len(pw.dom) :
            h # first => pw.replaced[h] = pw.dom[h]

\* C14: the Patch steps are independent. With no element of the target id
\* the replace step leaves the document unchanged and the delete steps and
\* the meta strip have the effect they have on the unreplaced document; an
\* absent delete id stops neither the later delete ids nor the meta strip:
\* every step is called, the first element of each delete id ends without
\* children and head ends without the meta elements of the strip list.
C14_PatchStepsIndependent ==
    pw.pc = "done" =>
      /\ ElementsWithId(pw.dom, pw.config.target) = <<>> =>
            /\ pw.replaced = pw.dom
            /\ pw.out = remove_meta_tags(
                          remove_nodes_loop(pw.dom, pw.config.remove_nodes),
                          1, pw.config.remove_meta_tags)
      /\ Len(pw.ran) = Len(pw.config.remove_nodes) + 2
      /\ \A k \in 1..Len(pw.config.remove_nodes) :
            LET found == ElementsWithId(pw.replaced, pw.config.remove_nodes[k]) IN
            found # <<>> => pw.out[found[1]].children = <<>>
      /\ \A i \in 1..Len(pw.out[3].children) :
            LET n == pw.out[pw.out[3].children[i]] IN
            \A j \in 1..Len(pw.config.remove_meta_tags) :
               /\ n.attr_name # pw.config.remove_meta_tags[j]
               /\ n.attr_property # pw.config.remove_meta_tags[j]

\* C14 witness: the target id and the first delete id are absent; the second
\* delete id emptied its element and the meta strip removed "description"
C14_Witness ==
    /\ pw.pc = "done"
    /\ pw.config.target = "Z"
    /\ pw.config.remove_nodes = <<"Z", "Y">>
    /\ pw.config.remove_meta_tags = <<"description">>
    /\ pw.dom[7].id = "Y"
    /\ pw.replaced = pw.dom
    /\ pw.out[7].children = <<>>
    /\ pw.out[3].children = <<19, 6, 21, 23>>

\* w is a full-mode obfuscation of the text s: as many characters, each an
\* outcome of the codec on the character at its index
FullModeOf(s, w) ==
    /\ Len(w) = Len(s)
    /\ \A i \in 1..Len(s) : Char(w[i]) \in random_char(mappers, s[i])

\* w has the shape of the JSON value v, with every string leaf replaced by
\* a full-mode obfuscation of it and everything else as in v
RECURSIVE SameShape(_, _)
SameShape(v, w) ==
    /\ w.kind = v.kind
    /\ CASE v.kind = "String" -> FullModeOf(v.s, w.s)
         [] v.kind = "Array" ->
              /\ Len(w.items) = Len(v.items)
              /\ \A i \in 1..Len(v.items) : SameShape(v.items[i], w.items[i])
         [] v.kind = "Object" ->
              /\ Len(w.entries) = Len(v.entries)
              /\ \A i \in 1..Len(v.entries) :
                    /\ w.entries[i][1] = v.entries[i][1]
                    /\ SameShape(v.entries[i][2], w.entries[i][2])
         [] OTHER -> w = v

\* C15: the JSON walker keeps the shape of every value: objects keep their
\* keys in order, arrays their length and order, numbers, booleans and null
\* are unchanged, and every string leaf at any depth is replaced by its
\* full-mode obfuscation; keys are never obfuscated. The walk ends without a
\* value only when the codec fails on a row with a reversed target range.
C15_JsonShapePreserved ==
    /\ json.pc = "done" =>
          /\ json.out.kind = "value"
          /\ SameShape(json.input, json.out.v)
    /\ json.pc = "panicked" =>
          \E i \in 1..Len(mappers) : mappers[i].target_start > mappers[i].target_end

\* C15 witness: in an object whose key is itself a mapped character, the
\* string inside the nested array was replaced, and the key and the number
\* beside the string were not
C15_Witness ==
    /\ json.pc = "done"
    /\ json.input =
         JObject(<< << <<19968>>, JArray(<<JString(<<19968>>), JNumber>>) >> >>)
    /\ json.out.v =
         JObject(<< << <<19968>>, JArray(<<JString(<<57344>>), JNumber>>) >> >>)

\* the steps of patch_page that belong to the HTML path
HtmlSteps == {"parse", "patch", "obfuscate_content", "serialize"}

\* C16: when the upstream answers with a JSON content type and a readable
\* body, the outcome is a Forward tagged JSON; under the Patch strategy the
\* client gets the upstream body unchanged, under the Obfuscation strategy
\* the serialization of the JSON-walked value or, when parsing or
\* serializing fails, the 500 fallback; no step of the HTML path is applied
\* to the body.
C16_JsonBodyDispatch ==
    (/\ pc = "done"
     /\ upstream.tag = "Response"
     /\ CtIsJson(upstream.headers)
     /\ upstream.text.kind # "Err") =>
      /\ fetched.tag = "Forward"
      /\ ForwardContentType(fetched) = "Json"
      /\ \A i \in 1..Len(patched.steps) : patched.steps[i] \notin HtmlSteps
      /\ IF cfg.strategy = "patch"
         THEN /\ response.status = upstream.status
              /\ response.body = fetched.body
         ELSE \/ /\ response.status = upstream.status
                 /\ response.body.kind = "json_obfuscated"
              \/ /\ response.status = 500
                 /\ IsFallbackBody(response.body)

\* the canonical reason phrases (RFC 9110); 599 has none
CanonicalPhrase(code) ==
    CASE code = 404 -> "Not Found"
      [] code = 500 -> "Internal Server Error"
      [] code = 502 -> "Bad Gateway"
      [] code = 504 -> "Gateway Timeout"
      [] OTHER -> ""

\* the title and h1 of the nginx-style page: the code and nginx's phrase
\* for the three codes the page knows, the bare number otherwise
NginxHeading(code) ==
    CASE code = 500 -> "500 Internal Server Error"
      [] code = 502 -> "502 Bad Gateway"
      [] code = 504 -> "504 Gateway Time-out"
      [] code = 404 -> "404"
      [] code = 599 -> "599"

\* what both readings of C17 say of a response of the builder, the body of
\* style "none" left aside
BuilderResponse(call) ==
    /\ call.resp.status = call.status_code
    /\ IF cfg.style = "Nginx"
       THEN /\ HeaderValues(call.resp.headers, "content-type")
                 = <<CONTENT_TYPE_VALUE_TEXT_HTML>>
            /\ call.resp.body.kind = "nginx"
            /\ call.resp.body.title = NginxHeading(call.status_code)
            /\ call.resp.body.h1 = NginxHeading(call.status_code)
       ELSE /\ call.resp.headers = <<>>
            /\ call.resp.body.kind = "plain"

\* C17 as stated: for every status the builder returns a response of that
\* status; with style "nginx" the Content-Type is HTML and title and h1 are
\* the code and its phrase, or the bare number; with style "none" there is
\* no Content-Type and the body is the canonical reason phrase.
C17_AsStated ==
    \A i \in 1..Len(sr.calls) :
       /\ BuilderResponse(sr.calls[i])
       /\ cfg.style = "None" =>
             sr.calls[i].resp.body.text = CanonicalPhrase(sr.calls[i].status_code)

\* C17 amended: as above, but with style "none" the body is the status code,
\* a space and the canonical reason phrase, and for a code without a
\* canonical phrase the code, a space and "<unknown status code>".
C17_SpecialResponseOfStatus ==
    \A i \in 1..Len(sr.calls) :
       LET call == sr.calls[i] IN
       /\ BuilderResponse(call)
       /\ cfg.style = "None" =>
             call.resp.body.text =
                ToString(call.status_code) \o " "
                \o (IF CanonicalPhrase(call.status_code) = ""
                    THEN "<unknown status code>"
                    ELSE CanonicalPhrase(call.status_code))

\* C17 witness: with style "none" the builder was given 502 and then 599
C17_Witness ==
    /\ cfg.style = "None"
    /\ Len(sr.calls) = 2
    /\ sr.calls[1].status_code = 502
    /\ sr.calls[1].resp.body.text = "502 Bad Gateway"
    /\ sr.calls[2].status_code = 599
    /\ sr.calls[2].resp.status = 599
    /\ sr.calls[2].resp.headers = <<>>

\* C18: when the upstream base URL is missing or is not a URL with a domain,
\* the process aborts during startup: it never serves, and no request is
\* ever handled under such a configuration.
C18_BadBaseUrlAbortsStartup ==
    cfg.base # "domain" =>
      /\ phase # "serving"
      /\ handled = 0
      /\ pc = "idle"

\* the walkers of the two strategies among the steps of one patch_page call
WalkersRun ==
    {i \in 1..Len(patched.steps) : patched.steps[i] \in {"patch", "obfuscate_content"}}

\* C19: the strategy applied to a request is Patch exactly when the
\* configured name is "patch"; "obfuscation" and every unrecognized name
\* select Obfuscation; the parsed document of a request is transformed by
\* exactly one of the two walkers, never both and never neither.
C19_StrategySelection ==
    (pc = "done" /\ fetched.tag = "Forward" /\ patched.result # "parse_err") =>
      /\ Cardinality(WalkersRun) = 1
      /\ \A i \in WalkersRun :
            patched.steps[i] = IF cfg.strategy = "patch" THEN "patch"
                               ELSE "obfuscate_content"
      /\ patched.result = "ok" =>
            response.body.by = IF cfg.strategy = "patch" THEN "Patch"
                               ELSE "Obfuscation"

\* C19 witness: under an unrecognized strategy name a forwarded page was
\* transformed by the Obfuscation walker alone
C19_Witness ==
    /\ pc = "done"
    /\ cfg.strategy = "bogus"
    /\ fetched.tag = "Forward"
    /\ patched.steps = <<"parse", "obfuscate_content", "serialize">>
    /\ response.body.kind = "transformed"
    /\ response.body.by = "Obfuscation"

\* the nodes the walker visits, in document order: it enters neither an
\* element on the skip list nor one whose tag is never obfuscated
RECURSIVE Walked(_, _, _)
Walked(dom, children, config) ==
    IF children = <<>> THEN <<>>
    ELSE LET n == dom[Head(children)]
             skipped == /\ n.kind = "Element"
                        /\ \/ Contains(config.ignore_nodes, n.id)
                           \/ n.name \in IGNORE_OBFUSCATION_TAGS
         IN (IF skipped THEN <<>>
             ELSE <<Head(children)>> \o Walked(dom, n.children, config))
            \o Walked(dom, Tail(children), config)

\* <<handle, index>> of every character of the text nodes among handles
RECURSIVE Positions(_, _)
Positions(dom, handles) ==
    IF handles = <<>> THEN <<>>
    ELSE LET h == Head(handles) IN
         (IF dom[h].kind = "Text"
          THEN [i \in 1..Len(dom[h].contents) |-> <<h, i>>]
          ELSE <<>>)
         \o Positions(dom, Tail(handles))

IsWhitespace(c) == c \in {9, 10, 13, 32}

CharAt(dom, p) == dom[p[1]].contents[p[2]]

\* the place of the first element with the id among the walked nodes, 0 if none
AfterNodeAt(dom, walked, id) ==
    LET at == {j \in 1..Len(walked) :
                 dom[walked[j]].kind = "Element" /\ dom[walked[j]].id = id}
    IN IF id \in {"", NoAttr} \/ at = {} THEN 0
       ELSE CHOOSE j \in at : \A q \in at : j <= q

\* C20: with a "start preserving after" id that is on the page and a count
\* N above 0, the walker obfuscates all text before that element, and from
\* that element on the first N non-whitespace characters, counted across
\* the successive text nodes, pass through unchanged (whitespace passes
\* without using the count); every later character goes through the codec.
C20_HeadExemptAfterNode ==
    ow.pc = "done" =>
      LET config == ow.config
          walked == Walked(ow.dom, ow.dom[DocumentRoot].children, config)
          at == AfterNodeAt(ow.dom, walked, config.ignore_after_node)
      IN (at > 0 /\ config.ignore_len > 0) =>
         LET before == Positions(ow.dom, SubSeq(walked, 1, at - 1))
             after == Positions(ow.dom, SubSeq(walked, at, Len(walked)))
             counted == SelectSeq(after,
                                  LAMBDA p : ~IsWhitespace(CharAt(ow.dom, p)))
             kept == IF config.ignore_len < Len(counted)
                     THEN config.ignore_len ELSE Len(counted)
         IN /\ \A j \in 1..Len(before) :
                 Char(CharAt(ow.out, before[j]))
                   \in obfuscater_random_char(CharAt(ow.dom, before[j]))
            /\ \A j \in 1..kept :
                 CharAt(ow.out, counted[j]) = CharAt(ow.dom, counted[j])
            /\ \A j \in 1..Len(after) :
                 IsWhitespace(CharAt(ow.dom, after[j]))
                   => CharAt(ow.out, after[j]) = CharAt(ow.dom, after[j])
            /\ \A j \in (kept + 1)..Len(counted) :
                 Char(CharAt(ow.out, counted[j]))
                   \in obfuscater_random_char(CharAt(ow.dom, counted[j]))

\* the tags whose subtree is never obfuscated
SkipTags == {"script", "noscript", "style", "template", "iframe"}

\* the handle is an element the walker must skip, or lies under one
RECURSIVE InSkippedSubtree(_, _, _)
InSkippedSubtree(dom, h, config) ==
    \/ /\ dom[h].kind = "Element"
       /\ \/ dom[h].name \in SkipTags
          \/ \E i \in 1..Len(config.ignore_nodes) : config.ignore_nodes[i] = dom[h].id
    \/ \E p \in 1..Len(dom) :
          /\ \E i \in 1..Len(dom[p].children) : dom[p].children[i] = h
          /\ InSkippedSubtree(dom, p, config)

\* w is s obfuscated in full mode by the codec of obfuscater.rs
ObfuscatedText(s, w) ==
    /\ Len(w) = Len(s)
    /\ \A i \in 1..Len(s) : Char(w[i]) \in obfuscater_random_char(s[i])

\* C21: the HTML obfuscation walker leaves every node of the subtree of an
\* element whose tag is script, noscript, style, template or iframe, or whose
\* id is in the exclusion set, exactly as it was; every text node outside
\* such a subtree is obfuscated in full mode; no node is added, removed or
\* moved.
C21_SkippedSubtreesUntouched ==
    ow.pc = "done" =>
      /\ Len(ow.out) = Len(ow.dom)
      /\ \A h \in 1..Len(ow.dom) :
            /\ ow.out[h].kind = ow.dom[h].kind
            /\ ow.out[h].children = ow.dom[h].children
            /\ InSkippedSubtree(ow.dom, h, ow.config) => ow.out[h] = ow.dom[h]
            /\ (ow.dom[h].kind = "Text" /\ ~InSkippedSubtree(ow.dom, h, ow.config))
                 => ObfuscatedText(ow.dom[h].contents, ow.out[h].contents)

\* C21 witness: the first div has the excluded id K; its text and the text
\* of the script are as they were, the text of the second div is replaced
C21_Witness ==
    /\ ow.pc = "done"
    /\ ow.config.ignore_nodes = <<"K">>
    /\ ow.dom[8].id = "K"
    /\ ow.out[11] = ow.dom[11]
    /\ ow.out[12] = ow.dom[12]
    /\ ow.out[13].contents = <<40868, 32, 40868>>
    /\ ow.out[7].contents = <<40868>>

\* the meta-tag inclusion set of the walk
InInclusionSet(config, value) ==
    \E i \in 1..Len(config.meta_tags) : config.meta_tags[i] = value

\* w is the text s after the codec was applied with the random numbers of
\* the walk: a mapped character is what the codec gives for one of them,
\* every other character is as it was
ObfuscatedWith(draws, s, w) ==
    /\ Len(w) = Len(s)
    /\ \A i \in 1..Len(s) :
          IF 19968 <= s[i] /\ s[i] <= 40869
          THEN \E k \in 1..Len(draws) : w[i] = random_char_drawn(s[i], draws[k])
          ELSE w[i] = s[i]

\* C22: under the Obfuscation strategy the content attribute of every meta
\* element of the document, one inside a subtree the main walk skips
\* included, is replaced by its full-mode obfuscation if and only if the
\* name or the property of the element is in the meta-tag inclusion set;
\* every other attribute of every element is unchanged.
C22_MetaContentByInclusion ==
    ow.pc = "done" =>
      LET metas == find_meta_tags(ow.dom, ow.dom[DocumentRoot].children) IN
      /\ \A j \in 1..Len(metas) :
            LET before == ow.dom[metas[j]]
                after == ow.out[metas[j]]
            IN IF \/ InInclusionSet(ow.config, before.attr_name)
                  \/ InInclusionSet(ow.config, before.attr_property)
               THEN ObfuscatedWith(ow.draws, before.content, after.content)
               ELSE after.content = before.content
      /\ \A h \in 1..Len(ow.dom) :
            ow.dom[h].kind = "Element" =>
               /\ ow.out[h].name = ow.dom[h].name
               /\ ow.out[h].id = ow.dom[h].id
               /\ ow.out[h].attr_name = ow.dom[h].attr_name
               /\ ow.out[h].attr_property = ow.dom[h].attr_property
               /\ ow.dom[h].name # "meta" => ow.out[h].content = ow.dom[h].content

\* the node is a meta element whose name or property is in the strip list
InStripList(dom, h, tags) ==
    /\ dom[h].kind = "Element"
    /\ dom[h].name = "meta"
    /\ \E i \in 1..Len(tags) :
          \/ dom[h].attr_name = tags[i]
          \/ dom[h].attr_property = tags[i]

\* C23: the meta-strip step of the Patch walker removes from the children
\* of head exactly the meta elements whose name or property is in the strip
\* list; the other children of head keep their order, and no other node of
\* the document changes, so a meta element deeper in head or in body stays.
C23_MetaStripDirectChildrenOfHead ==
    pw.pc = "done" =>
      /\ pw.out[3].children =
            SelectSeq(pw.removed[3].children,
                      LAMBDA h : ~InStripList(pw.removed, h,
                                              pw.config.remove_meta_tags))
      /\ \A h \in 1..Len(pw.removed) :
            h # 3 => pw.out[h] = pw.removed[h]

\* C23 witness: "description" is stripped from head; title, the og:title
\* meta, the noscript with its meta and the meta of the first div stay
C23_Witness ==
    /\ pw.pc = "done"
    /\ pw.config.remove_meta_tags = <<"description">>
    /\ pw.removed[3].children = <<5, 19, 6, 21, 23>>
    /\ pw.out[3].children = <<19, 6, 21, 23>>
    /\ pw.out[21].children = <<22>>
    /\ pw.out[7].children = <<9, 20>>

\* C25: when the ids-to-delete, the meta-identifiers-to-strip and the
\* node-id-exclusion settings are unset, each of the three lists has no
\* entry, so the delete steps empty no element, the meta strip removes no
\* child of head and the obfuscation walk skips no element for its id.
C25_UnsetListsAreEmpty ==
    /\ (pw.pc = "done" /\ pw.config.env.remove_nodes = Unset) =>
          /\ pw.config.remove_nodes = <<>>
          /\ pw.removed = pw.replaced
    /\ (pw.pc = "done" /\ pw.config.env.remove_meta_tags = Unset) =>
          /\ pw.config.remove_meta_tags = <<>>
          /\ pw.out = pw.removed
    /\ (ow.pc = "done" /\ ow.config.env.ignore_nodes = Unset) =>
          /\ ow.config.ignore_nodes = <<>>
          /\ \A h \in 1..Len(ow.dom) :
                (ow.dom[h].kind = "Element" /\ ow.dom[h].name \notin SkipTags
                 /\ ow.dom[h].name # "meta")
                  => \A i \in 1..Len(ow.dom[h].children) :
                        LET c == ow.dom[h].children[i] IN
                        ow.dom[c].kind = "Text" =>
                          ObfuscatedWith(ow.draws, ow.dom[c].contents,
                                         ow.out[c].contents)

\* the values a task holds are the values the statics hold
ReadsTheSharedValues ==
    \A t \in Tasks : \A n \in StaticNames :
       tasks[t].read[n] # NotRead =>
          /\ statics.cell[n].state = "Complete"
          /\ tasks[t].read[n].value = statics.cell[n].value
          /\ tasks[t].read[n].value = initializer(n, statics.env)

\* the tree a finished task holds is the walker's result on its own parsed
\* page with the shared configuration
OwnTreeOnly ==
    \A t \in Tasks :
       tasks[t].pc = "done" =>
          \E draws \in ConstantDraws :
             tasks[t].out = transform_of(tasks[t], draws)

\* C24: across every interleaving of the handler tasks each static is
\* initialized at most once and keeps its value afterwards, every task reads
\* that same value, a step changes the state of one task at most, and the
\* tree a task ends with is computed from its own parsed page alone.
C24_SharedConfigOnceAndOwnTrees ==
    /\ [](\A n \in StaticNames : statics.runs[n] <= 1)
    /\ [][\A n \in StaticNames :
            statics.cell[n].state = "Complete" =>
               statics'.cell[n] = statics.cell[n]]_vars
    /\ []ReadsTheSharedValues
    /\ []OwnTreeOnly
    /\ [][\A t, u \in Tasks :
            (tasks'[t] # tasks[t] /\ tasks'[u] # tasks[u]) => t = u]_vars
    /\ [][\A t \in Tasks :
            (tasks'[t].dom # tasks[t].dom \/ tasks'[t].out # tasks[t].out)
               => tasks'[t].pc # tasks[t].pc]_vars

\* C24 witness: one task has finished its walk and holds its result while
\* the other, on a different page, reads a static the first one initialized
C24_Witness ==
    /\ tasks[1].pc = "done"
    /\ tasks[1].out # tasks[1].dom
    /\ tasks[2].pc = "patch_page"
    /\ tasks[2].dom # tasks[1].dom
    /\ tasks[2].read["STRATEGY"] = tasks[1].read["STRATEGY"]
    /\ \A n \in StaticNames : statics.runs[n] <= 1
    /\ statics.runs["STRATEGY"] = 1

====
